---- MODULE Spec2Model ----
(***************************************************************************)
(* A model of the FlareGo profiling pipeline (Voskan/flarego):             *)
(*   - the flamegraph builder   (pkg/flamegraph/frame.go, builder.go)      *)
(*   - the samplers             (internal/agent/sampler/*.go)              *)
(*   - the collector            (internal/agent/collector.go)              *)
(*   - the gateway fan-out      (internal/gateway/server.go)               *)
(*   - the in-memory retention  (internal/gateway/retention/inmem.go)      *)
(* Each subsystem has its own variables and its own specification; a       *)
(* specification changes the variables of the subsystems its code calls    *)
(* (the samplers and the collector call the builder, the gateway writes    *)
(* to the retention store) and leaves the others unchanged.                *)
(***************************************************************************)
EXTENDS Integers, Sequences, FiniteSets, TLC

VARIABLES
  \* ---- flamegraph builder ----
  frames,   \* every root Frame allocated so far (a tree each), by allocation index
  root,     \* Builder.root: index into frames of the live tree
  adder,    \* per goroutine calling Builder.Add: where it is in Add/AddSample
  build,    \* the goroutine calling Builder.Build: where it is in Build/sortedCopy
  snaps,    \* the snapshots Build has returned, in order
  added,    \* history: the samples whose Add call has returned, in return order
  marks,    \* history: Len(added) at the moment each Build swapped the root
  \* ---- samplers and collector ----
  smp,      \* per sampler: its quit and done channels and its loop goroutines
  panic,    \* "" or the runtime panic that ended the process
  sc,       \* the goroutine calling Start/Stop on sampler "s1" directly
  col,      \* the Collector's fields, with its ticker and WaitGroup
  loop,     \* the collector's export loop goroutine
  exps,     \* per exporter: the Export and Close calls it has received
  cc,       \* the goroutine calling the Collector's methods
  stopper,  \* per sampler: the goroutine Collector.Stop starts to stop it
  \* ---- retention store ----
  ring,     \* the inMem store: idx, buf, tsBuf, filled
  now,      \* the wall clock, in units of 100 ms
  written,  \* history: per chunk written, in write order, its payload and time
  \* ---- gateway ----
  subs,     \* Server.subs: the registered subscriber channels
  chans,    \* per subscriber channel: its state, queue and what its reader got
  prod,     \* per producer: where its Stream handler is in handleChunk
  \* ---- diff ----
  dres,     \* the last Diff call: its arguments and what it returned
  \* ---- gateway shutdown ----
  srv,      \* ListenAndServe: the context, the GracefulStop call, Serve
  \* ---- gateway RPC calls ----
  rpc,      \* Config.AuthToken and, per caller, the metadata it sent, the
            \* status the auth check gave, how Recv ended, what Stream returned
  \* ---- alerts and exporter ----
  rule,     \* an alert rule: its state, the evaluations made, the notifications
  ev,       \* the last evaluation of a compiled predicate
  gx,       \* the gRPC exporter, its Export call and what the gateway received
  \* ---- GC sampler ----
  gc        \* the runtime's GC statistics, GCSampler.lastGCCount and the last poll

bVars == <<frames, root, adder, build, snaps, added, marks>>
sVars == <<smp, panic, sc>>
cVars == <<col, loop, exps, cc, stopper>>
rVars == <<ring, now, written>>
gVars == <<subs, chans, prod>>
dVars == <<dres>>
lVars == <<srv>>
aVars == <<rpc>>
mVars == <<rule, ev, gx, gc>>

(***************************************************************************)
(* Generic helpers                                                         *)
(***************************************************************************)
RECURSIVE SumSeq(_)
SumSeq(s) == IF s = <<>> THEN 0 ELSE Head(s) + SumSeq(Tail(s))

RECURSIVE SumSet(_, _)
\* sum of f[x] over the finite set S
SumSet(f, S) ==
  IF S = {} THEN 0
  ELSE LET x == CHOOSE y \in S : TRUE IN f[x] + SumSet(f, S \ {x})

IsPrefix(p, s) == Len(p) <= Len(s) /\ SubSeq(s, 1, Len(p)) = p

Min(a, b) == IF a <= b THEN a ELSE b

(***************************************************************************)
(* Flamegraph tree.  A tree is a function from node paths (root = <<>>) to *)
(* the node's Value; its domain is the set of nodes that exist.  A node's  *)
(* Name is the last element of its path, its Children are the paths one    *)
(* longer that extend it.                                                  *)
(***************************************************************************)

\* Bounds of the builder model.
MaxAdds == 3
MaxBuilds == 2

\* The samples callers may add: the stacks and weights of builder_test.go,
\* shortened names, and a negative weight as HeapSampler emits.
Samples ==
  { [stack |-> <<"main", "doWork", "heavy">>, weight |-> 100],
    [stack |-> <<"main", "doWork", "light">>, weight |-> 50],
    [stack |-> <<"main">>, weight |-> 100],
    [stack |-> <<"main">>, weight |-> -30],
    [stack |-> <<"(Heap)">>, weight |-> 1],
    [stack |-> <<>>, weight |-> 5],
    [stack |-> <<"x">>, weight |-> 0] }

\* The samples the concurrent specification draws from.
ConcSamples ==
  { [stack |-> <<"main", "doWork">>, weight |-> 100],
    [stack |-> <<"main">>, weight |-> -30] }

Adders == {"g1", "g2"}

\* flamegraph.New: a node with no children and Value 0.
New == (<<>> :> 0)

Children(f, node) ==
  {p \in DOMAIN f : Len(p) = Len(node) + 1 /\ IsPrefix(node, p)}

\* One iteration of AddSample's loop, under node.mu: look the child up,
\* create it when absent, add weight to the child's Value.
AddSampleStepSelfOnly(f, node, fn, weight, last) ==
  LET child == Append(node, fn)
      old == IF child \in DOMAIN f THEN f[child] ELSE 0
  IN [p \in (DOMAIN f) \cup {child} |->
        IF p = child THEN (IF last THEN old + weight ELSE old) ELSE f[p]]

AddSampleStepOverwrite(f, node, fn, weight, last) ==
  LET child == Append(node, fn)
  IN [p \in (DOMAIN f) \cup {child} |-> IF p = child THEN weight ELSE f[p]]

AddSampleStep(f, node, fn, weight, last) ==
  LET child == Append(node, fn)
      old == IF child \in DOMAIN f THEN f[child] ELSE 0
  IN [p \in (DOMAIN f) \cup {child} |-> IF p = child THEN old + weight ELSE f[p]]

\* Frame.AddSample run to completion from position i of the stack.
RECURSIVE AddSampleFrom(_, _, _, _)
AddSampleFrom(f, stack, i, weight) ==
  IF i > Len(stack) THEN f
  ELSE AddSampleFrom(AddSampleStep(f, SubSeq(stack, 1, i - 1), stack[i], weight,
                                   i = Len(stack)),
                     stack, i + 1, weight)

AddSample(f, stack, weight) ==
  IF Len(stack) = 0 THEN f ELSE AddSampleFrom(f, stack, 1, weight)

\* Builder.Add's guard: an empty stack or a zero weight returns at once.
IsNoOpEmptyStackOnly(s) == Len(s.stack) = 0

IsNoOp(s) == Len(s.stack) = 0 \/ s.weight = 0

\* One call of sortedCopy: copy the node's Value as it is now and list its
\* children as they are now; the children are copied by later calls.
\* todo is the stack of calls still to make (depth first).
SetToSeq(S) ==
  CHOOSE q \in [1..Cardinality(S) -> S] : \A i, j \in 1..Cardinality(S) : i # j => q[i] # q[j]

CopyStep(src, todo, out) ==
  LET node == Head(todo)
  IN [todo |-> SetToSeq(Children(src, node)) \o Tail(todo),
      out  |-> [p \in (DOMAIN out) \cup {node} |-> IF p = node THEN src[node] ELSE out[p]]]

RECURSIVE CopyAll(_, _, _)
CopyAll(src, todo, out) ==
  IF todo = <<>> THEN out
  ELSE LET r == CopyStep(src, todo, out) IN CopyAll(src, r.todo, r.out)

\* Frame.sortedCopy with no concurrent writer.
sortedCopy(f) == CopyAll(f, << <<>> >>, << >>)

(***************************************************************************)
(* Builder: state after NewBuilder, and the steps of Add and Build.        *)
(***************************************************************************)
NoSample == [stack |-> <<>>, weight |-> 0]
\* overlap is history: this goroutine has walked a tree while another
\* goroutine was walking the same tree.
IdleAdder == [pc |-> "idle", s |-> NoSample, tree |-> 0, i |-> 0, overlap |-> FALSE]
IdleBuild == [pc |-> "idle", old |-> 0, todo |-> <<>>, out |-> <<>>]

BuilderInit ==
  /\ frames = <<New>>
  /\ root = 1
  /\ adder = [g \in Adders |-> IdleAdder]
  /\ build = IdleBuild
  /\ snaps = <<>>
  /\ added = <<>>
  /\ marks = <<>>

AddsCalled == Len(added) + Cardinality({g \in Adders : adder[g].pc # "idle"})

\* Builder.Add up to the call of AddSample: the no-op guard, then the read
\* of b.root under the read lock.
AddCall(g, s) ==
  /\ adder[g].pc = "idle"
  /\ AddsCalled < MaxAdds
  /\ IF IsNoOp(s)
       THEN /\ added' = Append(added, s)
            /\ UNCHANGED adder
       ELSE /\ adder' = [adder EXCEPT ![g] = [pc |-> "walk", s |-> s, tree |-> root, i |-> 1,
                                               overlap |-> adder[g].overlap]]
            /\ UNCHANGED added
  /\ UNCHANGED <<frames, root, build, snaps, marks>>

\* One iteration of AddSample's loop on the tree this Add read as root;
\* after the last one Add returns.
AddStep(g) ==
  LET a == adder[g]
      f == AddSampleStep(frames[a.tree], SubSeq(a.s.stack, 1, a.i - 1),
                         a.s.stack[a.i], a.s.weight, a.i = Len(a.s.stack))
      ov == a.overlap \/ \E h \in Adders \ {g} : adder[h].pc = "walk" /\ adder[h].tree = a.tree
  IN /\ a.pc = "walk"
     /\ frames' = [frames EXCEPT ![a.tree] = f]
     /\ IF a.i = Len(a.s.stack)
          THEN /\ adder' = [adder EXCEPT ![g] = [IdleAdder EXCEPT !.overlap = ov]]
               /\ added' = Append(added, a.s)
          ELSE /\ adder' = [adder EXCEPT ![g].i = a.i + 1, ![g].overlap = ov]
               /\ UNCHANGED added
     /\ UNCHANGED <<root, build, snaps, marks>>

\* Build's critical section: swap the root for a fresh one.
BuildSwap ==
  /\ build.pc = "idle"
  /\ Len(marks) < MaxBuilds
  /\ frames' = Append(frames, New)
  /\ root' = Len(frames) + 1
  /\ build' = [pc |-> "copy", old |-> root, todo |-> << <<>> >>, out |-> <<>>]
  /\ marks' = Append(marks, Len(added))
  /\ UNCHANGED <<adder, snaps, added>>

\* One call of sortedCopy on the old tree, outside any lock; when the last
\* call returns Build returns the copy.
BuildCopyStep ==
  LET r == CopyStep(frames[build.old], build.todo, build.out)
  IN /\ build.pc = "copy"
     /\ IF r.todo = <<>>
          THEN /\ snaps' = Append(snaps, r.out)
               /\ build' = IdleBuild
          ELSE /\ build' = [build EXCEPT !.todo = r.todo, !.out = r.out]
               /\ UNCHANGED snaps
     /\ UNCHANGED <<frames, root, adder, added, marks>>

\* Builder.Add as one call with no other call in progress.
AddNow(s) ==
  /\ frames' = [frames EXCEPT ![root] =
                  IF IsNoOp(s) THEN @ ELSE AddSample(@, s.stack, s.weight)]
  /\ added' = Append(added, s)
  /\ UNCHANGED <<root, adder, build, snaps, marks>>

Add(s) == Len(added) < MaxAdds /\ AddNow(s)

BuildNowNoReset ==
  /\ snaps' = Append(snaps, sortedCopy(frames[root]))
  /\ marks' = Append(marks, Len(added))
  /\ UNCHANGED <<frames, root, adder, build, added>>

\* Builder.Build as one call with no other call in progress.
BuildNow ==
  /\ frames' = Append(frames, New)
  /\ root' = Len(frames) + 1
  /\ snaps' = Append(snaps, sortedCopy(frames[root]))
  /\ marks' = Append(marks, Len(added))
  /\ UNCHANGED <<adder, build, added>>

Build == Len(marks) < MaxBuilds /\ BuildNow

(***************************************************************************)
(* Properties of the builder                                               *)
(***************************************************************************)
\* The indices lo+1..hi of added whose sample Add does not ignore.
Window(lo, hi) == {i \in (lo + 1)..hi : ~IsNoOp(added[i])}

\* The indices of the samples that returned before Build k swapped the root
\* and after the previous Build did.
WindowOf(k) == Window(IF k = 1 THEN 0 ELSE marks[k - 1], marks[k])

RECURSIVE WeightOn(_, _)
\* The sum of the weights of the samples I whose stack has p as a prefix.
WeightOn(I, p) ==
  IF I = {} THEN 0
  ELSE LET i == CHOOSE j \in I : TRUE
       IN (IF IsPrefix(p, added[i].stack) THEN added[i].weight ELSE 0)
          + WeightOn(I \ {i}, p)

\* The non-root paths the samples I visit.
PathsOf(I) == UNION {{SubSeq(added[i].stack, 1, n) : n \in 1..Len(added[i].stack)} : i \in I}

\* Tree t is the aggregate of exactly the samples I.
Aggregates(t, I) ==
  /\ DOMAIN t = {<<>>} \cup PathsOf(I)
  /\ t[<<>>] = 0
  /\ \A p \in PathsOf(I) : t[p] = WeightOn(I, p)

\* The names of the model in Go's string order (bytewise), which is the
\* order in which encoding/json writes the keys of a map.
NameOrder == <<"(Heap)", "doWork", "heavy", "light", "main", "x">>
NameRank(n) == CHOOSE i \in 1..Len(NameOrder) : NameOrder[i] = n
NameLess(a, b) == NameRank(a) < NameRank(b)

\* ToJSON: json.Marshal of the sortedCopy, whose Children is a map again:
\* the children of a node are written in the order of their keys.
JSONChildren(t, node) ==
  SortSeq(SetToSeq(Children(t, node)),
          LAMBDA a, b : NameLess(a[Len(a)], b[Len(b)]))

RECURSIVE ToJSON(_, _)
ToJSON(t, node) ==
  LET kids == JSONChildren(t, node)
  IN <<IF node = <<>> THEN "root" ELSE node[Len(node)], t[node],
       [i \in 1..Len(kids) |-> ToJSON(t, kids[i])]>>

\* The children of a serialized node are in descending value order, those
\* of equal value in name order.
RECURSIVE Descending(_)
Descending(j) ==
  /\ \A a, b \in 1..Len(j[3]) :
       a < b => \/ j[3][a][2] > j[3][b][2]
                \/ j[3][a][2] = j[3][b][2] /\ NameLess(j[3][a][1], j[3][b][1])
  /\ \A a \in 1..Len(j[3]) : Descending(j[3][a])

\* C14: in the serialization of every snapshot the children of every node
\* are in descending value order, ties in name order.
C14_ChildrenDescending ==
  \A k \in 1..Len(snaps) : Descending(ToJSON(snaps[k], <<>>))

AllIdle == build.pc = "idle" /\ \A g \in Adders : adder[g].pc = "idle"

\* C13: a snapshot built once the Add calls have returned is a function of
\* the multiset of samples alone, whatever the order and the interleaving of
\* the Add calls: it has a node for every prefix of a sample's stack and no
\* other, and each node's value is the sum of the weights of the samples
\* passing through it (no update lost).
C13_OrderIndependent ==
  \A k \in 1..Len(snaps) :
    /\ DOMAIN snaps[k] \ {<<>>} = PathsOf(WindowOf(k))
    /\ \A p \in DOMAIN snaps[k] \ {<<>>} : snaps[k][p] = WeightOn(WindowOf(k), p)

\* C13 witness: two goroutines have added to the same path while the other
\* was walking the same tree, and the snapshot holds both weights.
C13_Witness ==
  /\ Len(snaps) = 1
  /\ \A g \in Adders : adder[g].overlap
  /\ marks[1] = 2
  /\ added[1] = added[2] /\ Len(added[1].stack) = 2
  /\ snaps[1][added[1].stack] = 2 * added[1].weight

\* C1: whenever no Add and no Build is in progress, every sample whose Add
\* returned is counted in exactly one place: there is an assignment of the
\* samples to the snapshots returned so far (or to the live tree, the next
\* snapshot) under which every snapshot is the aggregate of exactly the
\* samples assigned to it: none lost, none counted twice, none split.
C1_SnapshotAtomicity ==
  AllIdle =>
    \E f \in [1..Len(added) -> 1..(Len(snaps) + 1)] :
      /\ \A k \in 1..Len(snaps) :
           Aggregates(snaps[k], {i \in 1..Len(added) : f[i] = k /\ ~IsNoOp(added[i])})
      /\ Aggregates(frames[root],
                    {i \in 1..Len(added) : f[i] = Len(snaps) + 1 /\ ~IsNoOp(added[i])})

OnlyEmptyOrZero(lo, hi) ==
  \A i \in (lo + 1)..hi : added[i].stack = <<>> \/ added[i].weight = 0

\* C17: Add calls with an empty stack or weight zero leave the live tree
\* as it was: while only such samples have been added since the last Build
\* (or since the builder was made) the live tree is a root with no
\* children, and so is the snapshot of a Build that follows only such
\* samples.
C17_EmptyOrZeroIsNoOp ==
  /\ OnlyEmptyOrZero(IF marks = <<>> THEN 0 ELSE marks[Len(marks)], Len(added))
       => frames[root] = New
  /\ \A k \in 1..Len(snaps) :
       OnlyEmptyOrZero(IF k = 1 THEN 0 ELSE marks[k - 1], marks[k]) => snaps[k] = New

\* C17 witness: an empty stack and a zero weight were added, then Build
\* returned a root with no children.
C17_Witness ==
  /\ Len(snaps) = 1 /\ marks[1] = 2
  /\ \E i, j \in 1..2 : added[i].stack = <<>> /\ added[j].weight = 0 /\ added[j].stack # <<>>
  /\ snaps[1] = New

\* The Build calls that swapped the root after sample i's Add returned; the
\* first of them is the Build that follows the sample.
BuildsAfter(i) == {k \in 1..Len(marks) : marks[k] >= i}
FirstOf(S) == CHOOSE k \in S : \A j \in S : k <= j

\* No other sample added passes through the leaf of sample i's stack, so
\* that the leaf is in a tree exactly when sample i is.
Traceable(i) ==
  /\ ~IsNoOp(added[i])
  /\ \A j \in 1..Len(added) :
       j # i /\ ~IsNoOp(added[j]) => ~IsPrefix(added[i].stack, added[j].stack)

Holds(t, i) == added[i].stack \in DOMAIN t /\ t[added[i].stack] = added[i].weight

\* C33: with no Add overlapping a Build, a sample whose Add returned before
\* a Build swapped the root is in the snapshot of the first such Build and
\* in no other snapshot (no earlier one, no later one) nor in the live
\* tree; a sample no Build has followed yet is in the live tree only.
C33_SampleInItsSnapshotOnly ==
  \A i \in 1..Len(added) :
    Traceable(i) =>
      IF BuildsAfter(i) = {}
        THEN /\ Holds(frames[root], i)
             /\ \A k \in 1..Len(snaps) : added[i].stack \notin DOMAIN snaps[k]
        ELSE /\ Holds(snaps[FirstOf(BuildsAfter(i))], i)
             /\ \A k \in 1..Len(snaps) :
                  k # FirstOf(BuildsAfter(i)) => added[i].stack \notin DOMAIN snaps[k]
             /\ added[i].stack \notin DOMAIN frames[root]

\* C33 witness: two Builds, a sample added before the first and one added
\* between the two, each in its own snapshot only.
C33_Witness ==
  /\ Len(snaps) = 2
  /\ \E i, j \in 1..Len(added) :
       /\ Traceable(i) /\ Traceable(j)
       /\ i <= marks[1] /\ marks[1] < j /\ j <= marks[2]
       /\ Holds(snaps[1], i) /\ Holds(snaps[2], j)

\* The next iteration of goroutine g's AddSample loop locks the mutex of
\* Parent(g) and, holding it, reads and may write Parent(g)'s Children and
\* writes the Value of Child(g).
Parent(g) == SubSeq(adder[g].s.stack, 1, adder[g].i - 1)
Child(g) == SubSeq(adder[g].s.stack, 1, adder[g].i)

\* The next sortedCopy call of Build reads the Value and the Children of
\* the node at the head of todo and, to sort them, the Value of each of
\* its children, holding no mutex: it is unordered with the next write of
\* a goroutine walking the same tree at that node or at its parent.
UnlockedReadMeetsWrite(g) ==
  /\ build.pc = "copy" /\ build.todo # <<>>
  /\ adder[g].pc = "walk" /\ adder[g].tree = build.old
  /\ Head(build.todo) \in {Parent(g), Child(g)}

\* C37: no sortedCopy call of Build reads a node that an Add is about to
\* write with nothing ordering the two accesses.
C37_CopyReadsUnderLock == \A g \in Adders : ~UnlockedReadMeetsWrite(g)

\* C5: in every snapshot the sum of Value over the nodes other than the
\* root equals the sum of the weights of the non-empty samples of its window.
C5_Conservation ==
  \A k \in 1..Len(snaps) :
    SumSet(snaps[k], DOMAIN snaps[k] \ {<<>>}) = WeightOn(WindowOf(k), <<>>)

(***************************************************************************)
(* Samplers (BlockedSampler, GoroutineSampler, HeapSampler, GCSampler):    *)
(* the four share one lifecycle, a quit channel closed by Stop and a done  *)
(* channel closed by the loop goroutine when it returns.                   *)
(***************************************************************************)
SamplerIds == {"s1", "s2"}

\* Bounds of the sampler and collector models.
MaxSamplerCalls == 5
MaxCalls == 4
MaxTicks == 2

\* NewHeapSampler etc.: both channels open, no goroutine.  starts counts
\* the Start calls the sampler has received, launched the loop goroutines
\* they launched, loops those still running.
NewSampler ==
  [quit |-> "open", done |-> "open", loops |-> 0, launched |-> 0, ticks |-> 0, starts |-> 0]

\* Start: return when done is closed, otherwise go s.loop().
SamplerStartOnce(s) ==
  IF s.done = "closed" \/ s.launched > 0 THEN [s EXCEPT !.starts = @ + 1]
  ELSE [s EXCEPT !.loops = @ + 1, !.launched = @ + 1, !.starts = @ + 1]

SamplerStart(s) ==
  IF s.done = "closed" THEN [s EXCEPT !.starts = @ + 1]
  ELSE [s EXCEPT !.loops = @ + 1, !.launched = @ + 1, !.starts = @ + 1]

\* Stop returns at once when done is closed.
SamplerStopIsNoOp(s) == s.done = "closed"

\* Stop otherwise closes quit (a panic when it is closed already) and then
\* receives from done.
SamplerStopPanics(s) == s.done = "open" /\ s.quit = "closed"
SamplerCloseQuit(s) == [s EXCEPT !.quit = "closed"]

\* The loop's select takes the ticker case: one poll of the runtime, which
\* in HeapSampler is the change of ms.Alloc since the poll before, added to
\* the builder as a (Heap) sample unless it is zero.
HeapDeltas == {-1, 0, 1}
HeapSample(delta) == [stack |-> <<"(Heap)">>, weight |-> delta]
SamplerTickEnabled(s) == s.loops > 0 /\ s.ticks < MaxTicks
SamplerTick(s) == [s EXCEPT !.ticks = @ + 1]

\* The loop's select takes the quit case: the loop returns and its deferred
\* close(s.done) runs (a panic when done is closed already).
SamplerLoopCanReturn(s) == s.loops > 0 /\ s.quit = "closed"
SamplerLoopReturnPanics(s) == s.done = "closed"
SamplerLoopReturn(s) == [s EXCEPT !.loops = @ - 1, !.done = "closed"]

IdleCaller == [pc |-> "idle", calls |-> 0, stops |-> 0, retLoops |-> 0, lateLaunch |-> FALSE]

SamplerInit ==
  /\ smp = [s \in SamplerIds |-> NewSampler]
  /\ panic = ""
  /\ sc = IdleCaller

\* A caller's Start() on sampler s1.
SStart ==
  LET s == SamplerStart(smp["s1"])
  IN /\ panic = "" /\ sc.pc = "idle" /\ sc.calls < MaxSamplerCalls
     /\ smp' = [smp EXCEPT !["s1"] = s]
     /\ sc' = [sc EXCEPT !.calls = @ + 1,
                          !.lateLaunch = @ \/ (sc.stops > 0 /\ s.launched > smp["s1"].launched)]
     /\ UNCHANGED panic

\* A caller's Stop() on sampler s1, up to the receive from done.
SStopCall ==
  LET s == smp["s1"]
  IN /\ panic = "" /\ sc.pc = "idle" /\ sc.calls < MaxSamplerCalls
     /\ IF SamplerStopIsNoOp(s)
          THEN /\ sc' = [sc EXCEPT !.calls = @ + 1, !.stops = @ + 1,
                                   !.retLoops = IF s.loops > @ THEN s.loops ELSE @]
               /\ UNCHANGED <<smp, panic>>
          ELSE IF SamplerStopPanics(s)
          THEN /\ panic' = "close of closed channel"
               /\ UNCHANGED <<smp, sc>>
          ELSE /\ smp' = [smp EXCEPT !["s1"] = SamplerCloseQuit(s)]
               /\ sc' = [sc EXCEPT !.calls = @ + 1, !.pc = "stopWait"]
               /\ UNCHANGED panic

\* Stop's receive from done succeeds and Stop returns.
SStopReturn ==
  LET s == smp["s1"]
  IN /\ panic = "" /\ sc.pc = "stopWait"
     /\ s.done = "closed"
     /\ sc' = [sc EXCEPT !.pc = "idle", !.stops = @ + 1,
                          !.retLoops = IF s.loops > @ THEN s.loops ELSE @]
     /\ UNCHANGED <<smp, panic>>

\* One tick of a loop goroutine of sampler s.
LoopTick(s) ==
  /\ panic = ""
  /\ SamplerTickEnabled(smp[s])
  /\ smp' = [smp EXCEPT ![s] = SamplerTick(@)]
  /\ \E delta \in HeapDeltas :
       IF delta = 0 THEN UNCHANGED bVars ELSE AddNow(HeapSample(delta))
  /\ UNCHANGED panic

\* A loop goroutine of sampler s sees quit closed and returns.
LoopReturn(s) ==
  /\ panic = ""
  /\ SamplerLoopCanReturn(smp[s])
  /\ IF SamplerLoopReturnPanics(smp[s])
       THEN /\ panic' = "close of closed channel"
            /\ UNCHANGED smp
       ELSE /\ smp' = [smp EXCEPT ![s] = SamplerLoopReturn(@)]
            /\ UNCHANGED panic

\* C10: for every sequence of Start and Stop calls on one sampler, a Stop
\* call is never left waiting for a done channel that no goroutine will
\* close, no loop goroutine is still running when a Stop returns, and no
\* Start launches a loop after a Stop has returned.
C10_StopDrainsAndIsTerminal ==
  /\ ~(sc.pc = "stopWait" /\ smp["s1"].loops = 0 /\ smp["s1"].done = "open")
  /\ sc.retLoops = 0
  /\ ~sc.lateLaunch

\* C11: at most one loop goroutine of a sampler runs at a time: a Start on
\* a sampler whose loop is running launches nothing.
C11_StartWhileRunningIsNoOp == smp["s1"].loops <= 1

(***************************************************************************)
(* Collector (internal/agent/collector.go)                                 *)
(***************************************************************************)
ExporterIds == {"e1", "e2"}

Range(q) == {q[i] : i \in 1..Len(q)}

\* NewCollector: quit is a fresh open channel, no ticker, nothing registered.
NewCollector(every) ==
  [quit |-> "chan", quitCh |-> "open", exportT |-> "nil", exportEvery |-> every,
   tickerStopped |-> FALSE, tickBuffered |-> FALSE, ticks |-> 0,
   samplers |-> <<>>, exporters |-> <<>>, wg |-> 0]

IdleLoop == [pc |-> "none", quitSeen |-> "nil", synced |-> TRUE]

\* The last run of pushSnapshot: who ran it ("trigger" or "loop"), the
\* exporters registered and those whose Export fails at that time, the
\* Export calls it made in order and what it returned ("nil" or the error
\* of the exporter named).
NoPush == [by |-> "none", reg |-> <<>>, failing |-> {}, called |-> <<>>, ret |-> "nil"]
\* What holds at the end of the last Stop call that went past its guard:
\* whether the export loop goroutine is still running, how many loop
\* goroutines of the samplers Stop stopped are still running, and whether
\* every exporter Stop found registered has had exactly one Close call.
NoStopEnd == [ended |-> FALSE, loopRunning |-> FALSE, samplerLoops |-> 0, closedOnce |-> TRUE]

IdleCollectorCaller ==
  [pc |-> "idle", calls |-> 0, stops |-> 0, startLog |-> <<>>,
   stopPanicked |-> FALSE, laterStopActed |-> FALSE, lateAddStarted |-> FALSE,
   samplers |-> <<>>, exporters |-> <<>>, push |-> NoPush, stopEnd |-> NoStopEnd]

CollectorInitWith(E) ==
  /\ col \in {NewCollector(e) : e \in E}
  /\ loop = IdleLoop
  /\ exps = [e \in ExporterIds |-> [exports |-> 0, closes |-> 0, failing |-> FALSE,
                                      late |-> FALSE]]
  /\ cc = IdleCollectorCaller
  /\ stopper = [s \in SamplerIds |-> "none"]

CanCall == panic = "" /\ cc.pc = "idle" /\ cc.calls < MaxCalls

\* AddSampler: append under the lock, then start the sampler unless a
\* receive from c.quit succeeds (c.quit is a closed channel; a receive from
\* a nil channel never succeeds).
QuitReceives == col.quit = "chan" /\ col.quitCh = "closed"

AddSampler(s) ==
  /\ CanCall
  /\ s \notin Range(col.samplers)
  /\ col' = [col EXCEPT !.samplers = Append(@, s)]
  /\ smp' = [smp EXCEPT ![s] = IF QuitReceives THEN @ ELSE SamplerStart(@)]
  /\ cc' = [cc EXCEPT !.calls = @ + 1,
                       !.lateAddStarted = @ \/ (cc.stops > 0 /\ smp'[s].launched > smp[s].launched)]
  /\ UNCHANGED <<panic, sc, loop, exps, stopper>>

AddExporter(e) ==
  /\ CanCall
  /\ e \notin Range(col.exporters)
  /\ col' = [col EXCEPT !.exporters = Append(@, e)]
  /\ cc' = [cc EXCEPT !.calls = @ + 1]
  /\ UNCHANGED <<sVars, loop, exps, stopper>>

\* Start's guard: "already running or collector closed".
StartReturnsEarly == col.exportT # "nil" \/ col.quit = "nil"

Launches(old, new) == SumSet([s \in SamplerIds |-> new[s].launched - old[s].launched], SamplerIds)

Start ==
  LET started == [s \in SamplerIds |->
                    IF s \in Range(col.samplers) THEN SamplerStart(smp[s]) ELSE smp[s]]
      withLoop == col.exportEvery > 0
  IN /\ CanCall
     /\ IF StartReturnsEarly
          THEN /\ cc' = [cc EXCEPT !.calls = @ + 1,
                                   !.startLog = Append(@, [samplerLaunches |-> 0,
                                                           loopLaunched |-> FALSE,
                                                           afterStop |-> cc.stops > 0])]
               /\ UNCHANGED <<smp, col, loop>>
          ELSE /\ smp' = started
               /\ col' = IF withLoop
                          THEN [col EXCEPT !.exportT = "ticker", !.wg = @ + 1]
                          ELSE col
               /\ loop' = IF withLoop THEN [pc |-> "enter", quitSeen |-> "nil", synced |-> TRUE]
                           ELSE loop
               /\ cc' = [cc EXCEPT !.calls = @ + 1,
                                   !.startLog = Append(@, [samplerLaunches |-> Launches(smp, started),
                                                           loopLaunched |-> withLoop,
                                                           afterStop |-> cc.stops > 0])]
     /\ UNCHANGED <<panic, sc, exps, stopper>>

\* An exporter starts or stops failing (the gateway goes away or comes
\* back, the disk fills up).
ExporterFlips(e) ==
  /\ panic = ""
  /\ exps' = [exps EXCEPT ![e].failing = ~@]
  /\ UNCHANGED <<sVars, col, loop, cc, stopper>>

\* pushSnapshot's loop over its copy of c.exporters, from position i on:
\* the Export calls it makes and what it returns.
RECURSIVE pushSnapshotNoAbort(_, _, _)
pushSnapshotNoAbort(reg, i, x) ==
  IF i > Len(reg) THEN [called |-> <<>>, ret |-> "nil"]
  ELSE LET rest == pushSnapshotNoAbort(reg, i + 1, x)
       IN [called |-> <<reg[i]>> \o rest.called,
           ret |-> IF x[reg[i]].failing THEN reg[i] ELSE rest.ret]

RECURSIVE pushSnapshot(_, _, _)
pushSnapshot(reg, i, x) ==
  IF i > Len(reg) THEN [called |-> <<>>, ret |-> "nil"]
  ELSE IF x[reg[i]].failing THEN [called |-> <<reg[i]>>, ret |-> reg[i]]
  ELSE LET rest == pushSnapshot(reg, i + 1, x)
       IN [called |-> <<reg[i]>> \o rest.called, ret |-> rest.ret]

\* The exporters after the Export calls in called; late records an Export
\* call received after a Close call.
Exported(x, called) ==
  [e \in ExporterIds |-> IF e \in Range(called)
                          THEN [x[e] EXCEPT !.exports = @ + 1,
                                            !.late = @ \/ x[e].closes > 0]
                          ELSE x[e]]

PushLog(by, r) ==
  [by |-> by, reg |-> col.exporters,
   failing |-> {e \in Range(col.exporters) : exps[e].failing},
   called |-> r.called, ret |-> r.ret]

\* pushSnapshot: c.builder.Build() (BuildNow in the actions that call it),
\* then the loop over the exporters registered.
TriggerExport ==
  LET r == pushSnapshot(col.exporters, 1, exps)
  IN /\ CanCall
     /\ BuildNow
     /\ exps' = Exported(exps, r.called)
     /\ cc' = [cc EXCEPT !.calls = @ + 1, !.push = PushLog("trigger", r)]
     /\ UNCHANGED <<sVars, col, loop, stopper>>

\* The ticker delivers a tick into its one-slot channel.
TickerFire ==
  /\ panic = ""
  /\ col.exportT = "ticker" /\ ~col.tickerStopped /\ ~col.tickBuffered
  /\ col.ticks < MaxTicks
  /\ col' = [col EXCEPT !.tickBuffered = TRUE, !.ticks = @ + 1]
  /\ UNCHANGED <<sVars, loop, exps, cc, stopper>>

\* runExportLoop evaluates the operands of its select, c.exportT.C and
\* c.quit, without holding c.mu.  Once Stop has cleared the fields the loop
\* reads nil (a nil dereference of c.exportT) or, when it has not locked
\* c.mu since, possibly the earlier values: each field read is old or new.
LoopEnter ==
  /\ panic = ""
  /\ loop.pc = "enter"
  /\ IF col.exportT # "nil"
       THEN /\ loop' = [loop EXCEPT !.pc = "blocked", !.quitSeen = col.quit]
            /\ UNCHANGED panic
       ELSE \/ /\ panic' = "nil pointer dereference"
               /\ UNCHANGED loop
            \/ /\ ~loop.synced
               /\ \E q \in {"nil", "chan"} :
                    loop' = [loop EXCEPT !.pc = "blocked", !.quitSeen = q]
               /\ UNCHANGED panic
  /\ UNCHANGED <<smp, sc, col, exps, cc, stopper>>

\* The select receives a tick: pushSnapshot, which locks c.mu.
LoopTickExport ==
  /\ panic = ""
  /\ loop.pc = "blocked"
  /\ col.tickBuffered
  /\ col' = [col EXCEPT !.tickBuffered = FALSE]
  /\ BuildNow
  /\ exps' = Exported(exps, pushSnapshot(col.exporters, 1, exps).called)
  /\ loop' = [loop EXCEPT !.pc = "enter", !.synced = TRUE]
  /\ cc' = [cc EXCEPT !.push = PushLog("loop", pushSnapshot(col.exporters, 1, exps))]
  /\ UNCHANGED <<sVars, stopper>>

\* The select receives from the closed quit channel: the loop returns.
LoopQuit ==
  /\ panic = ""
  /\ loop.pc = "blocked"
  /\ loop.quitSeen = "chan" /\ col.quitCh = "closed"
  /\ loop' = [loop EXCEPT !.pc = "exited"]
  /\ col' = [col EXCEPT !.wg = @ - 1]
  /\ UNCHANGED <<sVars, exps, cc, stopper>>

\* Stop, its locked section and t.Stop().
StopBegin ==
  /\ CanCall
  /\ IF col.quit = "nil"
       THEN /\ cc' = [cc EXCEPT !.calls = @ + 1, !.stops = @ + 1]
            /\ UNCHANGED <<col, loop>>
       ELSE /\ col' = [col EXCEPT !.quitCh = "closed", !.quit = "nil", !.exportT = "nil",
                                   !.tickerStopped = (col.exportT # "nil")]
            /\ loop' = [loop EXCEPT !.synced = FALSE]
            /\ cc' = [cc EXCEPT !.calls = @ + 1, !.stops = @ + 1, !.pc = "waitLoop",
                                !.laterStopActed = cc.stops > 0,
                                !.samplers = col.samplers, !.exporters = col.exporters]
  /\ UNCHANGED <<sVars, exps, stopper>>

\* c.wg.Wait() returns; Stop starts one goroutine per sampler.
StopLoopWaited ==
  /\ panic = ""
  /\ cc.pc = "waitLoop"
  /\ col.wg = 0
  /\ stopper' = [s \in SamplerIds |-> IF s \in Range(cc.samplers) THEN "pending" ELSE "none"]
  /\ cc' = [cc EXCEPT !.pc = "stopSamplers"]
  /\ UNCHANGED <<sVars, col, loop, exps>>

\* A stopper goroutine calls s.Stop(), up to the receive from done.
StopperCall(s) ==
  /\ panic = ""
  /\ stopper[s] = "pending"
  /\ IF SamplerStopIsNoOp(smp[s])
       THEN /\ stopper' = [stopper EXCEPT ![s] = "done"]
            /\ UNCHANGED <<smp, panic>>
       ELSE IF SamplerStopPanics(smp[s])
       THEN /\ panic' = "close of closed channel"
            /\ UNCHANGED <<smp, stopper>>
       ELSE /\ smp' = [smp EXCEPT ![s] = SamplerCloseQuit(@)]
            /\ stopper' = [stopper EXCEPT ![s] = "waiting"]
            /\ UNCHANGED panic
  /\ UNCHANGED <<sc, col, loop, exps, cc>>

StopperReturn(s) ==
  /\ panic = ""
  /\ stopper[s] = "waiting"
  /\ smp[s].done = "closed"
  /\ stopper' = [stopper EXCEPT ![s] = "done"]
  /\ UNCHANGED <<sVars, col, loop, exps, cc>>

\* The stoppers have returned: Stop closes every exporter and then closes
\* quitCh, the channel its locked section closed already.  The panic
\* unwinds into the caller, who may recover and go on.
StopFinish ==
  /\ panic = ""
  /\ cc.pc = "stopSamplers"
  /\ \A s \in SamplerIds : stopper[s] \in {"none", "done"}
  /\ exps' = [e \in ExporterIds |-> IF e \in Range(cc.exporters)
                                      THEN [exps[e] EXCEPT !.closes = @ + 1] ELSE exps[e]]
  /\ cc' = [cc EXCEPT !.pc = "idle", !.stopPanicked = (col.quitCh = "closed"),
                       !.stopEnd = [ended |-> TRUE,
                                    loopRunning |-> loop.pc \notin {"none", "exited"},
                                    samplerLoops |-> SumSet([s \in SamplerIds |-> smp[s].loops],
                                                            Range(cc.samplers)),
                                    closedOnce |-> \A e \in Range(cc.exporters) :
                                                     exps'[e].closes = 1]]
  /\ col' = [col EXCEPT !.quitCh = "closed"]
  /\ stopper' = [s \in SamplerIds |-> "none"]
  /\ UNCHANGED <<sVars, loop>>

\* C31: in every export the exporters called are the registered ones in
\* registration order, each once, up to and including the first whose
\* Export fails; what pushSnapshot returns (and TriggerExport with it) is
\* that exporter's error, and nil when none fails.
C31_FirstErrorAborts ==
  LET p == cc.push
      n == Len(p.called)
  IN p.by # "none" =>
       /\ n <= Len(p.reg)
       /\ \A i \in 1..n : p.called[i] = p.reg[i]
       /\ \A i \in 1..(n - 1) : p.called[i] \notin p.failing
       /\ IF n > 0 /\ p.called[n] \in p.failing
            THEN p.ret = p.called[n]
            ELSE n = Len(p.reg) /\ p.ret = "nil"

\* C31 witness: a TriggerExport with two exporters registered of which the
\* first fails: only the first was called, and its error returned.
C31_Witness ==
  /\ cc.push.by = "trigger"
  /\ Len(cc.push.reg) = 2
  /\ cc.push.called = <<cc.push.reg[1]>>
  /\ cc.push.ret = cc.push.reg[1]
  /\ exps[cc.push.reg[2]].exports = 0

\* C32: a Stop call that went past its guard returns (it does not end in a
\* panic), and when it does the export loop has exited, no loop goroutine
\* of a sampler it stopped is running, and every exporter it found
\* registered has been closed exactly once.
C32_StopOrder ==
  cc.stopEnd.ended =>
    /\ ~cc.stopPanicked
    /\ ~cc.stopEnd.loopRunning
    /\ cc.stopEnd.samplerLoops = 0
    /\ cc.stopEnd.closedOnce

\* C35: across the AddSampler, Start and Stop calls on a collector every
\* registered sampler receives at most one Start call, and so launches at
\* most one loop goroutine.
C35_SamplerStartedOnce ==
  \A s \in Range(col.samplers) : smp[s].starts <= 1 /\ smp[s].launched <= 1

\* C38: no exporter receives an Export call after a Close call.
C38_NoExportAfterClose == \A e \in ExporterIds : ~exps[e].late

\* C3: a Stop call never panics, and a Stop call after the first changes
\* nothing.
C3_StopDoesNotPanic == ~cc.stopPanicked /\ ~cc.laterStopActed

\* C12: no AddSampler call made after a Stop call starts the sampler it
\* was given.
C12_AddSamplerAfterStopIsNoOp == ~cc.lateAddStarted

\* C9: a Start call that is not the collector's first, or that follows a
\* Stop, launches no sampler loop and no export loop.
C9_StartIdempotent ==
  \A k \in 1..Len(cc.startLog) :
    (k >= 2 \/ cc.startLog[k].afterStop) =>
      cc.startLog[k].samplerLaunches = 0 /\ ~cc.startLog[k].loopLaunched

(***************************************************************************)
(* In-memory retention store (internal/gateway/retention/inmem.go).        *)
(* Time is counted in units of 100 ms, so that NewInMem's capacity,        *)
(* int(d.Seconds()*10)+1, is RetentionDur + 1.                             *)
(***************************************************************************)
\* NewInMem clamps d to at least one second: ten units.
RetentionDur == 10
CapSlots == RetentionDur + 1

\* Bounds of the retention model.
MaxWrites == 13
MaxClock == 23

\* The gaps between two writes the model tries.
Deltas == {0, 1, RetentionDur, RetentionDur + 1}

Nil == <<"nil">>
ZeroTime == -1

\* time.Time's Before and After, the zero Time being before every other.
TimeBefore(a, c) == a # c /\ (a = ZeroTime \/ (c # ZeroTime /\ a < c))
TimeAfter(a, c) == TimeBefore(c, a)

NewInMem ==
  [idx |-> 0, buf |-> [i \in 1..CapSlots |-> Nil],
   tsBuf |-> [i \in 1..CapSlots |-> ZeroTime], filled |-> FALSE]

\* inMem.Write at time t.  idx counts from 0 as in the code; slot i of the
\* code is element i+1 here.
PurgeAllAfter(r, cutoff) ==
  [r EXCEPT !.buf = [i \in 1..CapSlots |-> IF TimeAfter(r.tsBuf[i], cutoff) THEN Nil ELSE r.buf[i]],
            !.tsBuf = [i \in 1..CapSlots |-> IF TimeAfter(r.tsBuf[i], cutoff) THEN ZeroTime ELSE r.tsBuf[i]]]

PurgeAll(r, cutoff) ==
  [r EXCEPT !.buf = [i \in 1..CapSlots |-> IF TimeBefore(r.tsBuf[i], cutoff) THEN Nil ELSE r.buf[i]],
            !.tsBuf = [i \in 1..CapSlots |-> IF TimeBefore(r.tsBuf[i], cutoff) THEN ZeroTime ELSE r.tsBuf[i]]]

InMemWrite(r, b, t) ==
  LET idx1 == (r.idx + 1) % CapSlots
      r1 == [r EXCEPT !.buf[r.idx + 1] = b, !.tsBuf[r.idx + 1] = t, !.idx = idx1,
                      !.filled = r.filled \/ idx1 = 0]
      cutoff == t - RetentionDur
  IN IF ~r1.filled THEN r1
     ELSE IF TimeAfter(r1.tsBuf[r1.idx + 1], cutoff) THEN r1
     ELSE PurgeAll(r1, cutoff)

\* inMem.ReadAll: the non-nil slots, from idx to the end and then from the
\* start to idx-1 once the ring has wrapped, from the start to idx-1 before.
RECURSIVE Slots(_, _, _)
Slots(r, lo, hi) ==
  IF lo > hi THEN <<>>
  ELSE (IF r.buf[lo] = Nil THEN <<>> ELSE <<r.buf[lo]>>) \o Slots(r, lo + 1, hi)

ReadAllFromStart(r) == Slots(r, 1, CapSlots)

ReadAll(r) ==
  IF ~r.filled THEN Slots(r, 1, r.idx)
  ELSE Slots(r, r.idx + 1, CapSlots) \o Slots(r, 1, r.idx)

RetentionInit ==
  /\ ring = NewInMem
  /\ now = 0
  /\ written = <<>>

\* The clock advances by d and a caller writes a fresh chunk.
Write(d) ==
  /\ Len(written) < MaxWrites
  /\ now + d <= MaxClock
  /\ now' = now + d
  /\ ring' = InMemWrite(ring, <<"w", Len(written) + 1>>, now')
  /\ written' = Append(written, [data |-> <<"w", Len(written) + 1>>, at |-> now'])

WriteIndex(b) == (CHOOSE k \in 1..Len(written) : written[k].data = b)

\* C8: after a Write, every chunk ReadAll returns was still inside the
\* retention window at the time of the write before: its age exceeds the
\* window by no more than the gap between the last two writes.
C8_PurgedWithinOneWriteCycle ==
  Len(written) >= 2 =>
    \A b \in Range(ReadAll(ring)) :
      written[WriteIndex(b)].at >= written[Len(written) - 1].at - RetentionDur

\* C25: a chunk written less than RetentionDur ago is still returned by
\* ReadAll, whatever the write rate.
C25_KeptForWindow ==
  \A k \in 1..Len(written) :
    now - written[k].at < RetentionDur => written[k].data \in Range(ReadAll(ring))

\* C26: ReadAll returns the retained chunks in write order, the newest
\* one last.
C26_ReadAllOldestFirst ==
  LET res == ReadAll(ring)
  IN /\ \A i, j \in 1..Len(res) : i < j => WriteIndex(res[i]) < WriteIndex(res[j])
     /\ written # <<>> => res # <<>> /\ res[Len(res)] = written[Len(written)].data

\* The store has wrapped and a purge has cleared slots.
WrappedAndPurged == ring.filled /\ \E i \in 1..CapSlots : ring.buf[i] = Nil

\* C26 witness: ReadAll returns several chunks after the ring has wrapped
\* and a purge has cleared slots between the write position and the
\* oldest chunk kept.
C26_Witness ==
  /\ WrappedAndPurged
  /\ ring.buf[ring.idx + 1] = Nil
  /\ Len(ReadAll(ring)) >= 2

\* C27: what ReadAll returns after a Write is what it returned before it
\* with some of the oldest entries removed and newly written chunks
\* appended; any two successive ReadAll results are related by a chain of
\* such steps, which is a step of the same form.
C27_ReadAllMonotone ==
  [][LET r1 == ReadAll(ring)
         r2 == ReadAll(ring')
     IN \E a \in 0..Len(r1) :
          LET kept == SubSeq(r1, a + 1, Len(r1))
          IN /\ IsPrefix(kept, r2)
             /\ \A i \in (Len(kept) + 1)..Len(r2) : r2[i] \notin {written[k].data : k \in 1..Len(written)}]_rVars

\* C27 witness: after a wrap and a purge ReadAll has lost its oldest
\* entries and still holds older chunks before the newest one.
C27_Witness ==
  /\ WrappedAndPurged
  /\ Len(ReadAll(ring)) >= 3
  /\ ReadAll(ring)[1] # written[1].data

(***************************************************************************)
(* Gateway (internal/gateway/server.go, router.go)                         *)
(***************************************************************************)
Producers == {"p1", "p2"}
ChanIds == {"c1", "c2"}

\* Bounds of the gateway model.  The code makes every subscriber channel
\* with capacity 100 (server.go lines 175 and 228); the model gives it a
\* capacity a few chunks can fill.
QueueCap == 1
MaxChunks == 2

NoChan == [state |-> "none", kind |-> "none", phase |-> "none", q |-> <<>>,
           recvd |-> <<>>, dropped |-> <<>>, atAttach |-> <<>>]
IdleProducer == [pc |-> "recv", n |-> 0, data |-> Nil, todo |-> {}]

\* The gateway before any agent has called Stream.
GatewayInitCalling ==
  /\ subs = {}
  /\ chans = [c \in ChanIds |-> NoChan]
  /\ prod = [p \in Producers |-> [IdleProducer EXCEPT !.pc = "call"]]

GatewayInit ==
  /\ subs = {}
  /\ chans = [c \in ChanIds |-> NoChan]
  /\ prod = [p \in Producers |-> IdleProducer]

\* subsMu: the producers inside handleChunk's fan-out hold the read lock.
Readers == {p \in Producers : prod[p].pc = "fanout"}

\* Stream receives a chunk and handleChunk writes it to the store.
HandleChunkWrite(p) ==
  LET data == <<p, prod[p].n + 1>>
  IN /\ panic = ""
     /\ prod[p].pc = "recv"
     /\ Len(written) < MaxChunks
     /\ ring' = InMemWrite(ring, data, now)
     /\ written' = Append(written, [data |-> data, at |-> now])
     /\ prod' = [prod EXCEPT ![p] = [pc |-> "written", n |-> @.n + 1, data |-> data, todo |-> {}]]
     /\ UNCHANGED <<now, subs, chans>>

\* handleChunk takes the read lock and starts ranging over s.subs.
FanoutBegin(p) ==
  /\ panic = ""
  /\ prod[p].pc = "written"
  /\ prod' = [prod EXCEPT ![p].pc = IF subs = {} THEN "recv" ELSE "fanout",
                           ![p].todo = subs]
  /\ UNCHANGED <<rVars, subs, chans>>

\* The select of the fan-out: send when the channel has room, else drop.
TrySendDropOldest(ch, data) ==
  IF Len(ch.q) < QueueCap THEN [ch EXCEPT !.q = Append(@, data)]
  ELSE [ch EXCEPT !.q = Append(Tail(@), data), !.dropped = Append(@, Head(ch.q))]

TrySend(ch, data) ==
  IF Len(ch.q) < QueueCap THEN [ch EXCEPT !.q = Append(@, data)]
  ELSE [ch EXCEPT !.dropped = Append(@, data)]

\* One iteration of the range over s.subs, in the map's (any) order; the
\* read lock is released after the last one.
FanoutSend(p, c) ==
  /\ panic = ""
  /\ prod[p].pc = "fanout"
  /\ c \in prod[p].todo
  /\ IF chans[c].state = "closed"
       THEN /\ panic' = "send on closed channel"
            /\ UNCHANGED <<chans, prod>>
       ELSE /\ chans' = [chans EXCEPT ![c] = TrySend(@, prod[p].data)]
            /\ prod' = [prod EXCEPT ![p].todo = @ \ {c},
                                     ![p].pc = IF prod[p].todo = {c} THEN "recv" ELSE "fanout"]
            /\ UNCHANGED panic
  /\ UNCHANGED <<rVars, subs>>

\* Server.Subscribe (the WebSocket path): make the channel and register it
\* under the write lock.
Subscribe(c) ==
  /\ panic = ""
  /\ chans[c].state = "none"
  /\ Readers = {}
  /\ subs' = subs \cup {c}
  /\ chans' = [chans EXCEPT ![c] = [NoChan EXCEPT !.state = "open", !.kind = "ws",
                                                  !.phase = "live", !.atAttach = ReadAll(ring)]]
  /\ UNCHANGED <<rVars, prod>>

\* StreamFlamegraphs returns only from a stream.Send that failed: in the
\* replay of what ReadAll returned, or in the loop over the channel when a
\* chunk came off it.  Nothing else ends the loop (the channel is closed by
\* the handler's own deferred cleanup only).
SendCanFail(c) ==
  \/ chans[c].phase = "replay" /\ ReadAll(ring) # <<>>
  \/ chans[c].phase = "live" /\ chans[c].q # <<>>

\* The unregister func Subscribe returned, which handleWebSocket defers and
\* another caller may call again, and the deferred cleanup of
\* StreamFlamegraphs, which runs once, when the handler returns: delete
\* under the write lock, then close(ch).
Unregister(c) ==
  /\ panic = ""
  /\ \/ chans[c].kind = "ws"
     \/ chans[c].kind = "grpc" /\ chans[c].state = "open" /\ SendCanFail(c)
  /\ Readers = {}
  /\ subs' = subs \ {c}
  /\ IF chans[c].state = "closed"
       THEN /\ panic' = "close of closed channel"
            /\ UNCHANGED chans
       ELSE /\ chans' = [chans EXCEPT ![c].state = "closed",
                                      ![c].phase = "done"]
            /\ UNCHANGED panic
  /\ UNCHANGED <<rVars, prod>>

\* The two steps of the same cleanup, for the interleavings with a fan-out
\* in between: the locked section (delete under the write lock, which
\* waits for the readers), and close(ch) after the lock is released.
UnregisterDeleteUnlocked(c) ==
  /\ panic = ""
  /\ chans[c].state = "open" /\ chans[c].phase \in {"replay", "live"}
  /\ chans[c].kind = "ws" \/ SendCanFail(c)
  /\ subs' = subs \ {c}
  /\ chans' = [chans EXCEPT ![c].phase = "closing"]
  /\ UNCHANGED <<rVars, prod, panic>>

UnregisterDelete(c) ==
  /\ panic = ""
  /\ chans[c].state = "open" /\ chans[c].phase \in {"replay", "live"}
  /\ chans[c].kind = "ws" \/ SendCanFail(c)
  /\ Readers = {}
  /\ subs' = subs \ {c}
  /\ chans' = [chans EXCEPT ![c].phase = "closing"]
  /\ UNCHANGED <<rVars, prod, panic>>

UnregisterClose(c) ==
  /\ panic = ""
  /\ chans[c].state = "open" /\ chans[c].phase = "closing"
  /\ chans' = [chans EXCEPT ![c].state = "closed", ![c].phase = "done"]
  /\ UNCHANGED <<rVars, subs, prod, panic>>

\* StreamFlamegraphs: make the channel and register it.
StreamFlamegraphs(c) ==
  /\ panic = ""
  /\ chans[c].state = "none"
  /\ Readers = {}
  /\ subs' = subs \cup {c}
  /\ chans' = [chans EXCEPT ![c] = [NoChan EXCEPT !.state = "open", !.kind = "grpc",
                                                  !.phase = "replay", !.atAttach = ReadAll(ring)]]
  /\ UNCHANGED <<rVars, prod>>

\* StreamFlamegraphs sends what ReadAll returns to the client.
Replay(c) ==
  /\ panic = ""
  /\ chans[c].phase = "replay"
  /\ chans' = [chans EXCEPT ![c].phase = "live", ![c].recvd = @ \o ReadAll(ring)]
  /\ UNCHANGED <<rVars, subs, prod>>

\* The reader loop (for buf := range ch) takes one chunk off the channel
\* and sends it to the client.
ClientRead(c) ==
  /\ panic = ""
  /\ chans[c].phase = "live"
  /\ chans[c].q # <<>>
  /\ chans' = [chans EXCEPT ![c].q = Tail(@), ![c].recvd = Append(@, Head(chans[c].q))]
  /\ UNCHANGED <<rVars, subs, prod>>

\* What subscriber c has been given so far, in order: sent to its client
\* or waiting in its queue.
Seen(c) == chans[c].recvd \o chans[c].q

Data(w) == [k \in 1..Len(w) |-> w[k].data]

Quiet == \A p \in Producers : prod[p].pc = "recv"

\* C2: when one producer has sent all the chunks back-to-back and every
\* handleChunk has returned, a WebSocket subscriber attached before the
\* first chunk that never read holds exactly the first QueueCap chunks (the
\* rest were dropped for it alone), and a subscriber whose queue was never
\* full has been given all of them, in order.
C2_SlowSubscriberOnly ==
  \A p \in Producers :
    (Quiet /\ prod[p].n = Len(written)) =>
      \A c \in subs :
        (chans[c].kind = "ws" /\ chans[c].atAttach = <<>>) =>
          /\ chans[c].recvd = <<>> =>
               /\ chans[c].q = SubSeq(Data(written), 1, Min(QueueCap, Len(written)))
               /\ chans[c].dropped = SubSeq(Data(written), QueueCap + 1, Len(written))
          /\ chans[c].dropped = <<>> => Seen(c) = Data(written)

\* C2 witness: more chunks than the queue holds were sent, one subscriber
\* never read and holds the first QueueCap, another was given all of them.
C2_Witness ==
  /\ Quiet
  /\ Len(written) > QueueCap
  /\ \E p \in Producers : prod[p].n = Len(written)
  /\ \E c, d \in subs :
       /\ chans[c].recvd = <<>> /\ Len(chans[c].q) = QueueCap /\ chans[c].dropped # <<>>
       /\ chans[d].dropped = <<>> /\ chans[d].recvd = Data(written)

Before(q, a, b) == \E i, j \in 1..Len(q) : i < j /\ q[i] = a /\ q[j] = b

\* C6: every subscriber sees any two chunks in the order in which the
\* retention store took them (the ingress order).
C6_IngressOrder ==
  \A c \in ChanIds : \A i, j \in 1..Len(Seen(c)) :
    i < j => ~Before(Data(written), Seen(c)[j], Seen(c)[i])

\* C7: once a subscriber is attached and follows live chunks, what it has
\* been given starts with the chunks that were retained when it attached,
\* oldest first.
C7_ReplayThenLive ==
  \A c \in ChanIds : chans[c].phase = "live" => IsPrefix(chans[c].atAttach, Seen(c))

(***************************************************************************)
(* The RPC handlers' first and last steps (Server.Stream and               *)
(* Server.StreamFlamegraphs): the bearer-token check and the end of the    *)
(* receive loop.  A call's metadata: has says whether the context carries  *)
(* metadata at all, auth is the values under the key "authorization".      *)
(***************************************************************************)
Tokens == {"", "tok"}
NoMD == [has |-> FALSE, auth |-> <<>>]
Metadata ==
  {NoMD} \cup {[has |-> TRUE, auth |-> a] :
                a \in {<<>>, <<"Bearer tok">>, <<"Bearer bad">>, <<"tok">>,
                       <<"Bearer bad", "Bearer tok">>}}
Callers == Producers \cup ChanIds
NoCall == [md |-> NoMD, status |-> "none", end |-> "", ret |-> ""]

AuthInit == rpc = [token |-> "", call |-> [x \in Callers |-> NoCall]]

\* The optional bearer-token check both handlers start with.
AuthCheckNoScheme(token, md) ==
  IF token = "" THEN "ok"
  ELSE IF ~md.has \/ Len(md.auth) = 0 THEN "Unauthenticated"
  ELSE IF md.auth[1] # token THEN "PermissionDenied"
  ELSE "ok"

AuthCheck(token, md) ==
  IF token = "" THEN "ok"
  ELSE IF ~md.has \/ Len(md.auth) = 0 THEN "Unauthenticated"
  ELSE IF md.auth[1] # "Bearer " \o token THEN "PermissionDenied"
  ELSE "ok"

\* Where Stream goes after the check: into the Recv loop, or it returns the
\* status error.
StreamAfterAuthAlwaysRecv(status) == "recv"

StreamAfterAuth(status) == IF status = "ok" THEN "recv" ELSE "rejected"

\* An agent calls Stream with metadata md.
StreamCall(p, md) ==
  LET status == AuthCheck(rpc.token, md)
  IN /\ panic = ""
     /\ prod[p].pc = "call"
     /\ rpc' = [rpc EXCEPT !.call[p].md = md, !.call[p].status = status,
                           !.call[p].ret = IF status = "ok" THEN "" ELSE status]
     /\ prod' = [prod EXCEPT ![p].pc = StreamAfterAuth(status)]
     /\ UNCHANGED <<rVars, subs, chans, srv>>

\* What Stream returns when Recv returned the error err: nil for a
\* Canceled or Unavailable status, else the error itself.
StreamReturnAlwaysErr(err) == err

StreamReturn(err) == IF err \in {"Canceled", "Unavailable"} THEN "nil" ELSE err

\* The errors Recv can return: status errors, and io.EOF when the client
\* has closed its send side.
RecvErrors == {"Canceled", "Unavailable", "EOF", "Internal"}

\* Recv returns an error and Stream returns.
StreamRecvError(p, err) ==
  /\ panic = ""
  /\ prod[p].pc = "recv"
  /\ prod' = [prod EXCEPT ![p].pc = "done"]
  /\ rpc' = [rpc EXCEPT !.call[p].end = err, !.call[p].ret = StreamReturn(err)]
  /\ UNCHANGED <<rVars, subs, chans, srv>>

\* A UI client calls StreamFlamegraphs with metadata md: the same check,
\* then the registration.
StreamFlamegraphsCall(c, md) ==
  LET status == AuthCheck(rpc.token, md)
  IN /\ panic = ""
     /\ rpc.call[c].status = "none"
     /\ rpc' = [rpc EXCEPT !.call[c].md = md, !.call[c].status = status,
                           !.call[c].ret = IF status = "ok" THEN "" ELSE status]
     /\ IF status = "ok" THEN StreamFlamegraphs(c)
                         ELSE UNCHANGED <<rVars, subs, chans, prod>>

\* The producers whose Stream call the check rejected.
Rejected ==
  {p \in Producers : rpc.call[p].status \in {"Unauthenticated", "PermissionDenied"}}

\* Every chunk is the pair of its producer and its number in that
\* producer's stream; an empty slot of the ring is Nil.
From(S, q) == \E i \in 1..Len(q) : q[i][1] \in S

\* C21: no chunk of a producer whose Stream call was rejected is in the
\* retention store or was put on (or dropped for) any subscriber queue.
C21_RejectedProducerWritesNothing ==
  /\ ~From(Rejected, Data(written))
  /\ ~From(Rejected, ring.buf)
  /\ \A c \in ChanIds :
       /\ ~From(Rejected, chans[c].q) /\ ~From(Rejected, chans[c].recvd)
       /\ ~From(Rejected, chans[c].dropped) /\ ~From(Rejected, chans[c].atAttach)

\* C21 witness: with a token configured one producer was rejected, the
\* other was accepted and a subscriber was given a chunk of its stream.
C21_Witness ==
  /\ rpc.token # ""
  /\ \E p, r \in Producers :
       /\ r \in Rejected /\ prod[r].pc = "rejected"
       /\ rpc.call[p].status = "ok"
       /\ \E c \in subs : From({p}, chans[c].recvd)

\* C22: with a token configured, a call with no authorization metadata is
\* rejected as Unauthenticated, a call whose authorization value is not
\* "Bearer <token>" is rejected as PermissionDenied, and a call with
\* exactly that value is accepted: Stream goes on to receive and
\* StreamFlamegraphs registers its subscriber.
C22_AuthStatuses ==
  \A x \in Callers :
    LET call == rpc.call[x]
        rejected == IF x \in Producers THEN prod[x].pc = "rejected"
                    ELSE chans[x].state = "none"
    IN (rpc.token # "" /\ call.status # "none") =>
         /\ (~call.md.has \/ call.md.auth = <<>>) =>
              call.status = "Unauthenticated" /\ rejected
         /\ (Len(call.md.auth) = 1 /\ call.md.auth[1] # "Bearer " \o rpc.token) =>
              call.status = "PermissionDenied" /\ rejected
         /\ call.md.auth = <<"Bearer " \o rpc.token>> =>
              call.status = "ok" /\ ~rejected

\* C22 witness: one call of each kind was made, to both handlers.
C22_Witness ==
  /\ rpc.token # ""
  /\ \E x, y, z \in Callers :
       /\ rpc.call[x].status = "Unauthenticated"
       /\ rpc.call[y].status = "PermissionDenied"
       /\ rpc.call[z].status = "ok"
       /\ {x, y, z} \cap Producers # {} /\ {x, y, z} \cap ChanIds # {}

\* C23: when the producer's stream ends by cancellation, by the transport
\* becoming unavailable, or by the client closing its send side, Stream
\* returns nil.
C23_StreamEndsCleanly ==
  \A p \in Producers :
    rpc.call[p].end \in {"Canceled", "Unavailable", "EOF"} => rpc.call[p].ret = "nil"

(***************************************************************************)
(* Shutdown (Server.ListenAndServe).  On cancellation a goroutine calls    *)
(* grpcSrv.GracefulStop, which accepts no new RPC and blocks until every   *)
(* pending RPC handler has returned; Serve returns when it has.            *)
(***************************************************************************)
ServerInit == srv = [ctx |-> "live", stop |-> "idle", serve |-> "serving"]

\* The agent cancels its stream: Recv returns a Canceled status.
StreamRecvEnds(p) == StreamRecvError(p, "Canceled")

\* The RPC handlers that have not returned: Stream and StreamFlamegraphs.
PendingRPCs ==
  {p \in Producers : prod[p].pc # "done"}
    \cup {c \in ChanIds : chans[c].kind = "grpc" /\ chans[c].state = "open"}

\* The context given to ListenAndServe is cancelled.
CtxCancel ==
  /\ panic = ""
  /\ srv.ctx = "live"
  /\ srv' = [srv EXCEPT !.ctx = "cancelled"]
  /\ UNCHANGED <<rVars, gVars>>

\* The goroutine of ListenAndServe receives from ctx.Done() and calls
\* GracefulStop.
GracefulStopBegin ==
  /\ panic = ""
  /\ srv.ctx = "cancelled"
  /\ srv.stop = "idle"
  /\ srv' = [srv EXCEPT !.stop = "waiting"]
  /\ UNCHANGED <<rVars, gVars>>

\* GracefulStop returns when no RPC is pending.
GracefulStopReturn ==
  /\ panic = ""
  /\ srv.stop = "waiting"
  /\ PendingRPCs = {}
  /\ srv' = [srv EXCEPT !.stop = "done"]
  /\ UNCHANGED <<rVars, gVars>>

\* Serve, and with it ListenAndServe, returns.
ServeReturn ==
  /\ panic = ""
  /\ srv.stop = "done"
  /\ srv.serve = "serving"
  /\ srv' = [srv EXCEPT !.serve = "returned"]
  /\ UNCHANGED <<rVars, gVars>>

\* C20: once the context is cancelled ListenAndServe eventually returns,
\* also when StreamFlamegraphs streams are attached and no further chunk
\* arrives.
C20_ListenAndServeReturns == (srv.ctx = "cancelled") ~> (srv.serve = "returned")

\* C24: a subscriber never sees two chunks of one ingress stream in the
\* opposite order to the one in which Stream received them (the second
\* component of a chunk is its number in its stream).
C24_PerStreamOrder ==
  \A c \in ChanIds : \A i, j \in 1..Len(Seen(c)) :
    (i < j /\ Seen(c)[i][1] = Seen(c)[j][1]) => Seen(c)[i][2] <= Seen(c)[j][2]

\* C36: a StreamFlamegraphs subscriber is sent no ingested chunk twice.
C36_AtMostOnce ==
  \A c \in ChanIds :
    chans[c].kind = "grpc" =>
      \A i, j \in 1..Len(Seen(c)) : i # j => Seen(c)[i] # Seen(c)[j]

\* C40: handleChunk never sends on a closed channel: every channel in the
\* subscriber set is open, and so is every channel a fan-out in progress
\* has still to send to.
C40_NoSendOnClosed ==
  /\ panic # "send on closed channel"
  /\ \A c \in subs : chans[c].state = "open"
  /\ \A p \in Producers :
       prod[p].pc = "fanout" => \A c \in prod[p].todo : chans[c].state = "open"

\* C40 witness: a fan-out is in progress, with channels still to send to,
\* after a subscriber that was given a chunk before has been unregistered
\* and its channel closed.
C40_Witness ==
  /\ \E p \in Producers : prod[p].pc = "fanout" /\ prod[p].todo # {}
  /\ \E c \in ChanIds : chans[c].state = "closed" /\ Seen(c) # <<>>

\* Config.MaxClients, the configured cap on subscribers (DefaultConfig sets
\* 128); here a cap that two subscribers exceed.
MaxClients == 1

\* C18: the number of registered subscribers never exceeds MaxClients.
C18_SubscribersWithinCap == Cardinality(subs) <= MaxClients

\* C19: calling the unregister func of Subscribe again after its first call
\* has no effect: it never closes the closed channel a second time.
C19_UnregisterIdempotent == panic # "close of closed channel"

(***************************************************************************)
(* Alert rules.  The rule evaluator (alerts/engine.go) is not among the    *)
(* sources; it is modelled from the specification: a rule is inactive,     *)
(* pending since a time, or firing; it is evaluated once per metric        *)
(* snapshot; its sinks are notified when it starts firing.                 *)
(***************************************************************************)
\* The rule's stabilization duration ("for"), in time units.
ForDur == 2
MaxEvals == 6
\* The gaps between two metric snapshots.
EvalGaps == {1, 2}

RuleInit ==
  rule = [st |-> "inactive", since |-> 0, at |-> 0, evals |-> <<>>, notes |-> <<>>]

\* The rule's next state at time t when its predicate evaluates to val:
\* the state, the time it is pending since, and whether sinks are notified.
RuleStepEveryTick(r, val, t) ==
  IF ~val THEN [st |-> "inactive", since |-> 0, notify |-> FALSE]
  ELSE IF r.st = "inactive" THEN [st |-> "pending", since |-> t, notify |-> FALSE]
  ELSE IF r.st = "pending" /\ t - r.since < ForDur
         THEN [st |-> "pending", since |-> r.since, notify |-> FALSE]
  ELSE [st |-> "firing", since |-> r.since, notify |-> TRUE]

RuleStep(r, val, t) ==
  IF ~val THEN [st |-> "inactive", since |-> 0, notify |-> FALSE]
  ELSE IF r.st = "inactive" THEN [st |-> "pending", since |-> t, notify |-> FALSE]
  ELSE IF r.st = "pending"
         THEN IF t - r.since >= ForDur
                THEN [st |-> "firing", since |-> r.since, notify |-> TRUE]
                ELSE [st |-> "pending", since |-> r.since, notify |-> FALSE]
  ELSE [st |-> "firing", since |-> r.since, notify |-> FALSE]

\* A metric snapshot arrives gap after the one before, the predicate
\* evaluates to val on it.
Evaluate(gap, val) ==
  LET t == rule.at + gap
      s == RuleStep(rule, val, t)
      k == Len(rule.evals) + 1
  IN /\ Len(rule.evals) < MaxEvals
     /\ rule' = [st |-> s.st, since |-> s.since, at |-> t,
                 evals |-> Append(rule.evals, [at |-> t, val |-> val]),
                 notes |-> IF s.notify THEN Append(rule.notes, k) ELSE rule.notes]
     /\ UNCHANGED <<ev, gx, gc>>

\* The first evaluation of the window of true evaluations that holds
\* evaluation k.
WindowStart(k) ==
  CHOOSE i \in 1..k :
    /\ \A m \in i..k : rule.evals[m].val
    /\ i = 1 \/ ~rule.evals[i - 1].val

\* True has held for the stabilization duration at evaluation k.
Stable(k) ==
  rule.evals[k].val /\ rule.evals[k].at - rule.evals[WindowStart(k)].at >= ForDur

\* C28: the sinks are notified at exactly the evaluations at which true
\* has first held for the stabilization duration within a window of true
\* evaluations (once per window that long, never in a shorter one), and
\* the rule is inactive after a false evaluation, pending since the start
\* of the window until then, and firing from then on.
C28_FiresOncePerWindow ==
  LET n == Len(rule.evals)
  IN /\ Range(rule.notes) =
          {k \in 1..n : Stable(k) /\ (k = WindowStart(k) \/ ~Stable(k - 1))}
     /\ Len(rule.notes) = Cardinality(Range(rule.notes))
     /\ n > 0 =>
          /\ ~rule.evals[n].val => rule.st = "inactive"
          /\ (rule.evals[n].val /\ ~Stable(n)) =>
               rule.st = "pending" /\ rule.since = rule.evals[WindowStart(n)].at
          /\ Stable(n) => rule.st = "firing"

\* C28 witness: a window too short to fire, then a window that fired once
\* and went on for two more true evaluations, then a false evaluation.
C28_Witness ==
  /\ Len(rule.evals) = 6
  /\ [k \in 1..6 |-> rule.evals[k].val] = <<TRUE, FALSE, TRUE, TRUE, TRUE, FALSE>>
  /\ rule.evals[4].at - rule.evals[3].at = ForDur
  /\ rule.notes = <<4>>
  /\ rule.st = "inactive"

(***************************************************************************)
(* The alert expression engine (internal/alertsengine/expr.go).  A value   *)
(* is a rational n/d in lowest terms with d > 0; the literals and metrics  *)
(* tried are small integers, on which float64 arithmetic of the depth      *)
(* tried compares with 0 as the rationals do.  eval is given the metric    *)
(* map and the model returns, with the value, the map as eval leaves it.   *)
(***************************************************************************)
Abs(x) == IF x < 0 THEN -x ELSE x

RECURSIVE GCD(_, _)
GCD(a, b) == IF b = 0 THEN a ELSE GCD(b, a % b)

Norm(n, d) ==
  IF n = 0 THEN [n |-> 0, d |-> 1]
  ELSE LET g == GCD(Abs(n), d) IN [n |-> n \div g, d |-> d \div g]

Num(i) == [n |-> i, d |-> 1]
Zero == Num(0)
One == Num(1)
Truth(b) == IF b THEN One ELSE Zero
Less(a, b) == a.n * b.d < b.n * a.d

\* binary.eval's case "/": 0 when the divisor is 0.
QuotNoZeroGuard(l, r) ==
  IF r.n = 0 THEN l
  ELSE IF r.n > 0 THEN Norm(l.n * r.d, l.d * r.n)
  ELSE Norm(-(l.n * r.d), l.d * (-r.n))

Quot(l, r) ==
  IF r.n = 0 THEN Zero
  ELSE IF r.n > 0 THEN Norm(l.n * r.d, l.d * r.n)
  ELSE Norm(-(l.n * r.d), l.d * (-r.n))

\* binary.eval once both operands are evaluated (&& and || are below).
BinaryOp(op, l, r) ==
  CASE op = "+" -> Norm(l.n * r.d + r.n * l.d, l.d * r.d)
    [] op = "-" -> Norm(l.n * r.d - r.n * l.d, l.d * r.d)
    [] op = "*" -> Norm(l.n * r.n, l.d * r.d)
    [] op = "/" -> Quot(l, r)
    [] op = "&&" -> Truth(l # Zero /\ r # Zero)
    [] op = "||" -> Truth(l # Zero \/ r # Zero)
    [] op = "==" -> Truth(l = r)
    [] op = "!=" -> Truth(l # r)
    [] op = ">" -> Truth(Less(r, l))
    [] op = ">=" -> Truth(~Less(l, r))
    [] op = "<" -> Truth(Less(l, r))
    [] op = "<=" -> Truth(~Less(r, l))
    [] OTHER -> Zero

\* unary.eval.
UnaryOp(op, v) ==
  CASE op = "-" -> [n |-> -v.n, d |-> v.d]
    [] op = "!" -> Truth(v = Zero)
    [] OTHER -> v

\* ident.eval: the map lookup m[name], 0 for an absent key.
IdentEvalInsert(m, name) ==
  IF name \in DOMAIN m THEN [v |-> m[name], m |-> m]
  ELSE [v |-> Zero, m |-> [k \in DOMAIN m \cup {name} |-> IF k = name THEN Zero ELSE m[k]]]

IdentEval(m, name) ==
  [v |-> IF name \in DOMAIN m THEN m[name] ELSE Zero, m |-> m]

\* node.eval.  Go evaluates the right operand of && and || only when the
\* left one does not decide.
RECURSIVE Eval(_, _)
Eval(e, m) ==
  CASE e.k = "lit" -> [v |-> Num(e.v), m |-> m]
    [] e.k = "id" -> IdentEval(m, e.name)
    [] e.k = "un" ->
         LET c == Eval(e.child, m) IN [v |-> UnaryOp(e.op, c.v), m |-> c.m]
    [] e.k = "bin" ->
         LET l == Eval(e.lhs, m)
         IN IF e.op = "&&" /\ l.v = Zero THEN [v |-> Zero, m |-> l.m]
            ELSE IF e.op = "||" /\ l.v # Zero THEN [v |-> One, m |-> l.m]
            ELSE LET r == Eval(e.rhs, l.m)
                 IN [v |-> BinaryOp(e.op, l.v, r.v), m |-> r.m]

\* The expressions and metric maps tried.
Idents == {"a", "b"}
Atoms == {[k |-> "lit", v |-> i] : i \in {0, 1, 3}} \cup {[k |-> "id", name |-> x] : x \in Idents}
BinOps == {"+", "-", "*", "/", "&&", "||", "==", "!=", ">", ">=", "<", "<="}
Compound ==
  {[k |-> "un", op |-> o, child |-> c] : o \in {"-", "!"}, c \in Atoms}
    \cup {[k |-> "bin", op |-> o, lhs |-> l, rhs |-> r] : o \in BinOps, l \in Atoms, r \in Atoms}
Exprs ==
  Atoms \cup Compound
    \cup {[k |-> "bin", op |-> o, lhs |-> l, rhs |-> r] : o \in {"/", "&&"}, l \in Atoms, r \in Compound}
MetricMaps ==
  UNION {[S -> {Zero, Num(2)}] : S \in SUBSET Idents}

NoEval == [kind |-> "none"]
EvInit == ev = NoEval

\* The Predicate Compile returned is called on a metric map.
EvalPredicate ==
  /\ ev = NoEval
  /\ \E e \in Exprs, m \in MetricMaps :
       LET out == Eval(e, m)
       IN ev' = [kind |-> "eval", expr |-> e, m |-> m, v |-> out.v,
                 after |-> out.m, pred |-> out.v # Zero]
  /\ UNCHANGED <<rule, gx, gc>>

\* C29: an evaluation gives a number for every expression and metric map;
\* a division whose divisor evaluates to 0 gives 0, an identifier absent
\* from the map gives 0, and the map is as it was.
C29_EvalIsTotal ==
  ev.kind = "eval" =>
    /\ ev.v.n \in Int /\ ev.v.d >= 1 /\ ev.pred \in BOOLEAN
    /\ ev.after = ev.m
    /\ (ev.expr.k = "id" /\ ev.expr.name \notin DOMAIN ev.m) => ev.v = Zero
    /\ (ev.expr.k = "bin" /\ ev.expr.op = "/" /\ Eval(ev.expr.rhs, ev.m).v = Zero) =>
         ev.v = Zero

\* C29 witness: a non-zero value was divided by an expression over an
\* identifier the map does not hold, and by one that is 0 by arithmetic.
C29_Witness ==
  /\ ev.kind = "eval"
  /\ ev.expr.k = "bin" /\ ev.expr.op = "/"
  /\ Eval(ev.expr.lhs, ev.m).v # Zero
  /\ ev.expr.rhs.k = "bin" /\ ev.expr.rhs.op = "-"
  /\ ev.expr.rhs.lhs = [k |-> "id", name |-> "a"]
  /\ ev.expr.rhs.rhs = [k |-> "id", name |-> "b"]
  /\ "a" \in DOMAIN ev.m /\ "b" \notin DOMAIN ev.m /\ ev.m["a"] = Zero
  /\ ev.v = Zero

(***************************************************************************)
(* The gRPC exporter (internal/agent/exporter/grpc_exporter.go).  Export   *)
(* is called by one goroutine, one snapshot per call; the link to the      *)
(* gateway goes down and up, Close and the cancellation of the caller's    *)
(* context come from other goroutines.  g.stream is "nil", "up" or         *)
(* "broken" (its transport failed or its context was cancelled); bound     *)
(* is the context it was opened with: the caller's, or the flush-timeout   *)
(* context of the Export call whose reconnect opened it.                   *)
(***************************************************************************)
MaxExports == 3
\* The intervals NextBackOff gives before it returns Stop.
MaxTries == 2

ExporterInit ==
  gx = [stream |-> "up", bound |-> "caller", sid |-> 1, link |-> "up",
        closing |-> FALSE, ctx |-> "live", pc |-> "idle", n |-> 0,
        old |-> 0, tries |-> 0, expired |-> FALSE, recvd |-> <<>>, log |-> <<>>]

\* Export returns: its deferred cancel() ends the flush-timeout context,
\* and with it a stream that this call's reconnect opened.
ExportReturns(g, entry) ==
  [g EXCEPT !.pc = "idle", !.expired = FALSE,
            !.stream = IF g.stream = "up" /\ g.bound = "flush" THEN "broken" ELSE g.stream,
            !.log = Append(g.log, entry)]

\* What Export returns after a failed Send: the send error, whatever
\* reconnect returned.
ExportResultOfReconnect(sendErr, recErr) == recErr

ExportResult(sendErr, recErr) == sendErr

\* Export is called with the next snapshot.
ExportCall ==
  /\ gx.pc = "idle"
  /\ gx.n < MaxExports
  /\ gx' = [gx EXCEPT !.pc = "ensure", !.n = @ + 1]
  /\ UNCHANGED <<rule, ev, gc>>

\* "Ensure a stream is alive": connect with the caller's context when
\* g.stream is nil.  The blocking dial returns when the link is up or the
\* context is cancelled.
ExportEnsure ==
  /\ gx.pc = "ensure"
  /\ IF gx.stream # "nil" THEN gx' = [gx EXCEPT !.pc = "send"]
     ELSE IF gx.ctx = "cancelled"
       THEN gx' = ExportReturns(gx, [snap |-> gx.n, sendFailed |-> FALSE,
                                     ret |-> "connecterr", exit |-> "none", dropped |-> FALSE])
     ELSE /\ gx.link = "up"
          /\ gx' = [gx EXCEPT !.pc = "send", !.stream = "up", !.bound = "caller",
                               !.sid = @ + 1]
  /\ UNCHANGED <<rule, ev, gc>>

\* stream.Send on a live stream: the gateway receives the snapshot.
ExportSendOk ==
  /\ gx.pc = "send"
  /\ gx.stream = "up"
  /\ gx' = ExportReturns([gx EXCEPT !.recvd = Append(@, gx.n)],
                         [snap |-> gx.n, sendFailed |-> FALSE, ret |-> "nil",
                          exit |-> "none", dropped |-> FALSE])
  /\ UNCHANGED <<rule, ev, gc>>

\* stream.Send does not wait for the gateway: on a stream that has just
\* broken it can return nil, and the snapshot is lost.
ExportSendLost ==
  /\ gx.pc = "send"
  /\ gx.stream = "broken"
  /\ gx' = ExportReturns(gx, [snap |-> gx.n, sendFailed |-> FALSE, ret |-> "nil",
                              exit |-> "none", dropped |-> FALSE])
  /\ UNCHANGED <<rule, ev, gc>>

\* stream.Send on a broken stream returns an error, and reconnect starts:
\* it drops the stream and the connection and resets the back-off.
ExportSendFails ==
  /\ gx.pc = "send"
  /\ gx.stream = "broken"
  /\ gx' = [gx EXCEPT !.pc = "backoff", !.old = gx.sid, !.stream = "nil", !.tries = 0]
  /\ UNCHANGED <<rule, ev, gc>>

\* How Export ends after reconnect returned for the reason exit.
ReconnectExit(g, exit) ==
  ExportReturns(g, [snap |-> g.n, sendFailed |-> TRUE,
                    ret |-> ExportResult("senderr", IF exit = "success" THEN "nil" ELSE exit),
                    exit |-> exit,
                    dropped |-> g.stream = "nil" \/ g.sid # g.old])

\* reconnect's loop asks the back-off for the next interval; Stop ends it.
ReconnectNextBackOff ==
  /\ gx.pc = "backoff"
  /\ IF gx.tries >= MaxTries THEN gx' = ReconnectExit(gx, "budget")
     ELSE gx' = [gx EXCEPT !.pc = "select", !.tries = @ + 1]
  /\ UNCHANGED <<rule, ev, gc>>

\* The select: the timer fires and connect is tried with the flush-timeout
\* context.
ReconnectTry ==
  /\ gx.pc = "select"
  /\ IF gx.link = "up" /\ ~gx.expired /\ gx.ctx = "live"
       THEN gx' = ReconnectExit([gx EXCEPT !.stream = "up", !.bound = "flush", !.sid = @ + 1],
                                "success")
       ELSE gx' = [gx EXCEPT !.pc = "backoff"]
  /\ UNCHANGED <<rule, ev, gc>>

\* The select: g.closing is closed.
ReconnectClosing ==
  /\ gx.pc = "select"
  /\ gx.closing
  /\ gx' = ReconnectExit(gx, "closed")
  /\ UNCHANGED <<rule, ev, gc>>

\* The select: ctx.Done(), the flush-timeout context being cancelled by
\* the caller's cancellation or by its deadline.
ReconnectCtxDone ==
  /\ gx.pc = "select"
  /\ gx.ctx = "cancelled" \/ gx.expired
  /\ gx' = ReconnectExit(gx, "cancelled")
  /\ UNCHANGED <<rule, ev, gc>>

\* The flush timeout of the running Export call expires.
FlushTimeout ==
  /\ gx.pc \in {"send", "backoff", "select"}
  /\ ~gx.expired
  /\ gx' = [gx EXCEPT !.expired = TRUE]
  /\ UNCHANGED <<rule, ev, gc>>

\* The link to the gateway fails (and with it the stream), or comes back.
LinkFlips ==
  /\ gx' = [gx EXCEPT !.link = IF gx.link = "up" THEN "down" ELSE "up",
                       !.stream = IF gx.link = "up" /\ gx.stream = "up" THEN "broken" ELSE @]
  /\ UNCHANGED <<rule, ev, gc>>

\* Close: closes g.closing (a panic when it is closed already), then the
\* stream's send side and the connection.
ClosePanics(g) == g.closing
Closed(g) == [g EXCEPT !.closing = TRUE,
                       !.stream = IF g.stream = "up" THEN "broken" ELSE @]

\* The exporter's first Close call.
ExporterClose ==
  /\ ~ClosePanics(gx)
  /\ gx' = Closed(gx)
  /\ UNCHANGED <<rule, ev, gc>>

\* The agent binary (cmd/flarego-agent/main.go) registers the gRPC
\* exporter, here "e1", with its collector, and on shutdown calls
\* col.Stop() and then exp.Close().  The last steps of Stop with that
\* exporter registered: its Close is called by Stop's loop.
AgentStopFinish ==
  /\ StopFinish
  /\ IF "e1" \in Range(cc.exporters) /\ ~ClosePanics(gx)
       THEN gx' = Closed(gx)
       ELSE UNCHANGED gx
  /\ UNCHANGED <<rule, ev, gc>>

\* main's exp.Close(), the statement after col.Stop().
MainClose ==
  /\ panic = "" /\ cc.pc = "idle" /\ cc.stopEnd.ended /\ cc.calls = MaxCalls
  /\ cc' = [cc EXCEPT !.calls = @ + 1]
  /\ IF ClosePanics(gx)
       THEN /\ panic' = "close of closed channel (g.closing)"
            /\ UNCHANGED gx
       ELSE /\ gx' = Closed(gx)
            /\ UNCHANGED panic
  /\ UNCHANGED <<smp, sc, col, loop, exps, stopper, rule, ev, gc>>

\* C39: no Close call closes g.closing a second time: the Close call the
\* agent binary makes after Collector.Stop does not panic.
C39_ClosingClosedOnce == panic # "close of closed channel (g.closing)"

\* The caller's context is cancelled: the streams opened with it, or with
\* a context derived from it, end.
ExportCtxCancel ==
  /\ gx.ctx = "live"
  /\ gx' = [gx EXCEPT !.ctx = "cancelled",
                       !.stream = IF gx.stream = "up" THEN "broken" ELSE @]
  /\ UNCHANGED <<rule, ev, gc>>

\* What holds of every Export call whose Send failed, apart from how its
\* reconnect ended: the old stream was dropped, the snapshot was not sent
\* again, the gateway received no snapshot twice, Export returned the
\* send error.
FailedSendsNotResent ==
  /\ \A i, j \in 1..Len(gx.recvd) : i # j => gx.recvd[i] # gx.recvd[j]
  /\ \A k \in 1..Len(gx.log) :
       gx.log[k].sendFailed =>
         /\ gx.log[k].dropped
         /\ gx.log[k].snap \notin Range(gx.recvd)
         /\ gx.log[k].ret = "senderr"

\* C30 as stated: after a failed Send the reconnection attempts go on until
\* success, Close or cancellation (of the context reconnect is given).
C30_ReconnectUntilSuccessCloseOrCancel ==
  /\ FailedSendsNotResent
  /\ \A k \in 1..Len(gx.log) :
       gx.log[k].sendFailed => gx.log[k].exit \in {"success", "closed", "cancelled"}

\* C30 amended: the reconnection attempts also end when the back-off
\* returns Stop.
C30_ReconnectUntilExit ==
  /\ FailedSendsNotResent
  /\ \A k \in 1..Len(gx.log) :
       gx.log[k].sendFailed =>
         gx.log[k].exit \in {"success", "closed", "cancelled", "budget"}

\* C30 witness: a snapshot was received, the next Send failed and its
\* reconnect succeeded, and a later Export ended with the back-off's Stop.
C30_Witness ==
  /\ Len(gx.log) = 3 /\ gx.recvd = <<1>>
  /\ gx.log[2].sendFailed /\ gx.log[2].exit = "success"
  /\ gx.log[3].sendFailed /\ gx.log[3].exit = "budget"

(***************************************************************************)
(* The GC sampler's loop (internal/agent/sampler/gc.go).  The runtime      *)
(* counts the GC cycles in MemStats.NumGC, a uint32, and keeps the pause   *)
(* of cycle n in PauseNs[(n+255)%256], a circular buffer of the last 256   *)
(* pauses.  The model keeps both widths as powers of two, scaled down:     *)
(* the counter has CounterBits bits, the buffer 2^BufBits slots.           *)
(***************************************************************************)
CounterBits == 3
BufBits == 2
MaxPolls == 2
CounterMod == 2 ^ CounterBits
PauseLen == 2 ^ BufBits
PauseTimes == {1, 2}

\* since is history: the pauses of the cycles completed since the last
\* poll, oldest first.  last is the last poll that saw the counter move.
NoPoll == [polled |-> FALSE, prev |-> 0, cur |-> 0, emitted |-> <<>>, cycles |-> <<>>]

\* The state when the loop goroutine has stored the counter it found.
GCInitAt(N) ==
  gc \in {[NumGC |-> n,
           PauseNs |-> [i \in 0..(PauseLen - 1) |-> IF i < n THEN 1 ELSE 0],
           lastGCCount |-> n, since |-> <<>>, polls |-> 0, last |-> NoPoll] : n \in N}

\* The runtime completes a GC cycle with stop-the-world pause p; up to
\* one cycle more than the buffer holds between two polls.
GCCycle(p) ==
  LET n == (gc.NumGC + 1) % CounterMod
  IN /\ Len(gc.since) <= PauseLen
     /\ gc' = [gc EXCEPT !.NumGC = n,
                         !.PauseNs[(n + PauseLen - 1) % PauseLen] = p,
                         !.since = Append(@, p)]
     /\ UNCHANGED <<rule, ev, gx>>

\* for i := prev; i != cur; i++ { ... }: the pauses read, those of 0 skipped.
RECURSIVE GCPauses(_, _, _)
GCPauses(i, cur, buf) ==
  IF i = cur THEN <<>>
  ELSE (IF buf[i % PauseLen] = 0 THEN <<>> ELSE <<buf[i % PauseLen]>>)
       \o GCPauses((i + 1) % CounterMod, cur, buf)

GCSample(pause) == [stack |-> <<"(GC)">>, weight |-> pause]

\* The tree after s.builder.Add of one (GC) sample per pause in q.
RECURSIVE GCAddAll(_, _)
GCAddAll(t, q) ==
  IF q = <<>> THEN t
  ELSE GCAddAll(AddSample(t, <<"(GC)">>, Head(q)), Tail(q))

\* One tick of the loop: ReadMemStats, the loop over the new cycles, the
\* store of cur.
GCPoll ==
  LET prev == gc.lastGCCount
      cur == gc.NumGC
      q == GCPauses(prev, cur, gc.PauseNs)
  IN /\ gc.polls < MaxPolls
     /\ IF cur = prev
          THEN /\ gc' = [gc EXCEPT !.polls = @ + 1]
               /\ UNCHANGED bVars
          ELSE /\ gc' = [gc EXCEPT !.polls = @ + 1, !.lastGCCount = cur, !.since = <<>>,
                                   !.last = [polled |-> TRUE, prev |-> prev, cur |-> cur,
                                             emitted |-> q, cycles |-> gc.since]]
               /\ frames' = [frames EXCEPT ![root] = GCAddAll(@, q)]
               /\ added' = added \o [i \in 1..Len(q) |-> GCSample(q[i])]
               /\ UNCHANGED <<root, adder, build, snaps, marks>>
     /\ UNCHANGED <<rule, ev, gx>>

\* C34: a poll that finds the counter moved from prev to cur adds one (GC)
\* sample per cycle completed since the poll before, in order, each
\* weighted with that cycle's pause, and stores cur as the last count seen.
C34_OneSamplePerCycle ==
  gc.last.polled =>
    /\ gc.last.emitted = gc.last.cycles
    /\ (gc.since = <<>> => gc.lastGCCount = gc.NumGC)

(***************************************************************************)
(* Diff (pkg/flamegraph/diff.go).  A tree is a function from the paths of  *)
(* its nodes to their values, as above; a nil *Frame is the function with  *)
(* no path at all.                                                         *)
(***************************************************************************)
NilFrame == [p \in {} |-> 0]

\* Bound of the Diff model: the node values of the trees Diff is given.
MaxVal == 1

\* The trees Diff is given: every tree over these paths (the CLI's diff
\* command loads both trees from files).
DiffPaths == {<<"a">>, <<"b">>, <<"b", "ba">>, <<"b", "bb">>}
PrefixClosed(D) == \A p \in D : Len(p) > 1 => SubSeq(p, 1, Len(p) - 1) \in D
Trees ==
  UNION {[D \cup {<<>>} -> 0..MaxVal] : D \in {E \in SUBSET DiffPaths : PrefixClosed(E)}}

\* A missing side counts as a node of value 0 with no children.
ValueAt(t, p) == IF p \in DOMAIN t THEN t[p] ELSE 0

\* node.Value = head.Value - base.Value
DiffDeltaSwapped(hv, bv) == bv - hv

DiffDelta(hv, bv) == hv - bv

\* "Only include non-zero subtrees": a child that is not nil is kept when
\* its value is not 0 or it has children.
DiffKeeps(c, q) == c # NilFrame /\ (c[q] # 0 \/ Children(c, q) # {})

\* "Prune leaf if nothing changed".
DiffIsNilValueOnly(v, kids) == v = 0

DiffIsNil(v, kids) == v = 0 /\ kids = NilFrame

RECURSIVE MergeAll(_)
MergeAll(S) ==
  IF S = {} THEN NilFrame
  ELSE LET f == CHOOSE x \in S : TRUE IN f @@ MergeAll(S \ {f})

\* Diff at the node of path p, a side being nil when it has no node there.
RECURSIVE DiffAt(_, _, _)
DiffAt(head, base, p) ==
  IF p \notin DOMAIN head /\ p \notin DOMAIN base THEN NilFrame
  ELSE LET v == DiffDelta(ValueAt(head, p), ValueAt(base, p))
           keys == Children(head, p) \cup Children(base, p)
           kids == MergeAll({c \in {DiffAt(head, base, q) : q \in keys} :
                               \E q \in keys : c = DiffAt(head, base, q) /\ DiffKeeps(c, q)})
       IN IF DiffIsNil(v, kids) THEN NilFrame ELSE (p :> v) @@ kids

Diff(head, base) == DiffAt(head, base, <<>>)

NoDiff == [kind |-> "none", head |-> NilFrame, base |-> NilFrame, out |-> NilFrame]

DiffInit == dres = NoDiff

\* flarego diff: Diff of two trees loaded from files, or of one and nil.
DiffTrees ==
  /\ dres = NoDiff
  /\ \E h, b \in Trees \cup {NilFrame} :
       dres' = [kind |-> "trees", head |-> h, base |-> b, out |-> Diff(h, b)]

\* Diff(a, nil) of the live tree a of a builder.
DiffLive ==
  dres' = [kind |-> "live", head |-> frames[root], base |-> NilFrame,
           out |-> Diff(frames[root], NilFrame)]

\* head's value minus base's at path p, a missing node counting as 0.
DeltaAt(p) == ValueAt(dres.head, p) - ValueAt(dres.base, p)
DiffAllPaths == DOMAIN dres.head \cup DOMAIN dres.base

\* The paths at or below which the given function is not 0 somewhere.
Changed(P, f(_)) == {p \in P : \E q \in P : IsPrefix(p, q) /\ f(q) # 0}

\* C15: Diff(head, base) has a node at a path exactly when the difference
\* there or at some path below it is not 0; every node's value is the
\* difference at its path; no node of value 0 without children is kept;
\* the result is nil when no path differs.
C15_DiffNodes ==
  dres.kind = "trees" =>
    /\ DOMAIN dres.out = Changed(DiffAllPaths, DeltaAt)
    /\ \A p \in DOMAIN dres.out : dres.out[p] = DeltaAt(p)
    /\ \A p \in DOMAIN dres.out : dres.out[p] = 0 => Children(dres.out, p) # {}
    /\ (\A p \in DiffAllPaths : DeltaAt(p) = 0) => dres.out = NilFrame

\* C15 witness: head {a:1, b:{ba:1}} and base {a:1, b:{ba:1, bb:1}} give
\* {b:{bb:-1}}: a and ba are pruned, b is kept for its child.
C15_Witness ==
  /\ dres.kind = "trees"
  /\ dres.head = (<<>> :> 0) @@ (<<"a">> :> 1) @@ (<<"b">> :> 0) @@ (<<"b", "ba">> :> 1)
  /\ dres.base = dres.head @@ (<<"b", "bb">> :> 1)
  /\ dres.out = (<<>> :> 0) @@ (<<"b">> :> 0) @@ (<<"b", "bb">> :> -1)

\* C16 as stated: Diff(a, nil) has the nodes of a with their values.
C16_DiffNilIsIdentity ==
  dres.kind = "live" => dres.out = dres.head

\* C16 amended: Diff(a, nil) has the nodes of a at or below which a is not
\* 0 somewhere, with their values: the subtrees of a that are 0 throughout
\* are pruned (all of a, the result being nil, when a is 0 everywhere).
C16_DiffNilPrunesZeroSubtrees ==
  dres.kind = "live" =>
    LET a == dres.head
        kept == Changed(DOMAIN a, LAMBDA q : a[q])
    IN dres.out = [p \in kept |-> a[p]]

\* C16 witness: weights 1 and -1 cancelled on (Heap), main was added to;
\* Diff(a, nil) keeps main and has no (Heap).
C16_Witness ==
  /\ dres.kind = "live"
  /\ <<"(Heap)">> \in DOMAIN dres.head /\ dres.head[<<"(Heap)">>] = 0
  /\ <<"main">> \in DOMAIN dres.out
  /\ <<"(Heap)">> \notin DOMAIN dres.out
  /\ DOMAIN dres.out = DOMAIN dres.head \ {<<"(Heap)">>}

(***************************************************************************)
(* Specifications                                                          *)
(***************************************************************************)
MoreInit == RuleInit /\ EvInit /\ ExporterInit /\ GCInitAt({0})

vars == <<bVars, sVars, cVars, rVars, gVars, dVars, lVars, aVars, mVars>>

Init ==
  BuilderInit /\ SamplerInit /\ CollectorInitWith({0}) /\ RetentionInit /\ GatewayInit /\ DiffInit /\ ServerInit /\ AuthInit /\ MoreInit
InitCollector ==
  BuilderInit /\ SamplerInit /\ CollectorInitWith({0, 1}) /\ RetentionInit /\ GatewayInit /\ DiffInit /\ ServerInit /\ AuthInit /\ MoreInit

\* The gateway started with either configuration, no agent connected yet.
\* The GC sampler started on a process that has run no GC cycle, or one
\* whose cycle counter is about to wrap.
InitGC ==
  /\ BuilderInit /\ SamplerInit /\ CollectorInitWith({0}) /\ RetentionInit
  /\ GatewayInit /\ DiffInit /\ ServerInit /\ AuthInit
  /\ RuleInit /\ EvInit /\ ExporterInit /\ GCInitAt({0, CounterMod - 2})

\* The agent binary's collector: ExportEvery is 500 ms.
InitAgent ==
  BuilderInit /\ SamplerInit /\ CollectorInitWith({1}) /\ RetentionInit /\ GatewayInit /\ DiffInit /\ ServerInit /\ AuthInit /\ MoreInit

InitAuth ==
  /\ BuilderInit /\ SamplerInit /\ CollectorInitWith({0}) /\ RetentionInit
  /\ GatewayInitCalling /\ DiffInit /\ ServerInit /\ MoreInit
  /\ \E tok \in Tokens : rpc = [token |-> tok, call |-> [x \in Callers |-> NoCall]]

NextBuilderSeq ==
  \/ \E s \in Samples : Add(s) /\ UNCHANGED <<sVars, cVars, rVars, gVars, dVars, lVars, aVars, mVars>>
  \/ Build /\ UNCHANGED <<sVars, cVars, rVars, gVars, dVars, lVars, aVars, mVars>>

NextBuilder ==
  \/ \E g \in Adders, s \in ConcSamples : AddCall(g, s) /\ UNCHANGED <<sVars, cVars, rVars, gVars, dVars, lVars, aVars, mVars>>
  \/ \E g \in Adders : AddStep(g) /\ UNCHANGED <<sVars, cVars, rVars, gVars, dVars, lVars, aVars, mVars>>
  \/ BuildSwap /\ UNCHANGED <<sVars, cVars, rVars, gVars, dVars, lVars, aVars, mVars>>
  \/ BuildCopyStep /\ UNCHANGED <<sVars, cVars, rVars, gVars, dVars, lVars, aVars, mVars>>

\* Concurrent Add calls, Build called when they have returned.
NextBuilderAdds ==
  \/ \E g \in Adders, s \in ConcSamples : AddCall(g, s) /\ UNCHANGED <<sVars, cVars, rVars, gVars, dVars, lVars, aVars, mVars>>
  \/ \E g \in Adders : AddStep(g) /\ UNCHANGED <<sVars, cVars, rVars, gVars, dVars, lVars, aVars, mVars>>
  \/ AllIdle /\ Build /\ UNCHANGED <<sVars, cVars, rVars, gVars, dVars, lVars, aVars, mVars>>

NextSampler ==
  \/ SStart /\ UNCHANGED <<bVars, cVars, rVars, gVars, dVars, lVars, aVars, mVars>>
  \/ SStopCall /\ UNCHANGED <<bVars, cVars, rVars, gVars, dVars, lVars, aVars, mVars>>
  \/ SStopReturn /\ UNCHANGED <<bVars, cVars, rVars, gVars, dVars, lVars, aVars, mVars>>
  \/ LoopTick("s1") /\ UNCHANGED <<sc, cVars, rVars, gVars, dVars, lVars, aVars, mVars>>
  \/ LoopReturn("s1") /\ UNCHANGED <<sc, bVars, cVars, rVars, gVars, dVars, lVars, aVars, mVars>>

NextCollector ==
  \/ \E s \in SamplerIds : AddSampler(s) /\ UNCHANGED <<bVars, rVars, gVars, dVars, lVars, aVars, mVars>>
  \/ \E e \in ExporterIds : AddExporter(e) /\ UNCHANGED <<bVars, rVars, gVars, dVars, lVars, aVars, mVars>>
  \/ Start /\ UNCHANGED <<bVars, rVars, gVars, dVars, lVars, aVars, mVars>>
  \/ TriggerExport /\ UNCHANGED <<rVars, gVars, dVars, lVars, aVars, mVars>>
  \/ TickerFire /\ UNCHANGED <<bVars, rVars, gVars, dVars, lVars, aVars, mVars>>
  \/ LoopEnter /\ UNCHANGED <<bVars, rVars, gVars, dVars, lVars, aVars, mVars>>
  \/ LoopTickExport /\ UNCHANGED <<rVars, gVars, dVars, lVars, aVars, mVars>>
  \/ LoopQuit /\ UNCHANGED <<bVars, rVars, gVars, dVars, lVars, aVars, mVars>>
  \/ StopBegin /\ UNCHANGED <<bVars, rVars, gVars, dVars, lVars, aVars, mVars>>
  \/ StopLoopWaited /\ UNCHANGED <<bVars, rVars, gVars, dVars, lVars, aVars, mVars>>
  \/ \E s \in SamplerIds : StopperCall(s) /\ UNCHANGED <<bVars, rVars, gVars, dVars, lVars, aVars, mVars>>
  \/ \E s \in SamplerIds : StopperReturn(s) /\ UNCHANGED <<bVars, rVars, gVars, dVars, lVars, aVars, mVars>>
  \/ StopFinish /\ UNCHANGED <<bVars, rVars, gVars, dVars, lVars, aVars, mVars>>
  \/ \E s \in SamplerIds : LoopTick(s) /\ UNCHANGED <<sc, cVars, rVars, gVars, dVars, lVars, aVars, mVars>>
  \/ \E s \in SamplerIds : LoopReturn(s) /\ UNCHANGED <<sc, bVars, cVars, rVars, gVars, dVars, lVars, aVars, mVars>>

\* Exports through the collector with exporters that fail and recover.
NextCollectorExport ==
  \/ \E e \in ExporterIds : AddExporter(e) /\ UNCHANGED <<bVars, rVars, gVars, dVars, lVars, aVars, mVars>>
  \/ \E e \in ExporterIds : ExporterFlips(e) /\ UNCHANGED <<bVars, rVars, gVars, dVars, lVars, aVars, mVars>>
  \/ Start /\ UNCHANGED <<bVars, rVars, gVars, dVars, lVars, aVars, mVars>>
  \/ TriggerExport /\ UNCHANGED <<rVars, gVars, dVars, lVars, aVars, mVars>>
  \/ TickerFire /\ UNCHANGED <<bVars, rVars, gVars, dVars, lVars, aVars, mVars>>
  \/ LoopEnter /\ UNCHANGED <<bVars, rVars, gVars, dVars, lVars, aVars, mVars>>
  \/ LoopTickExport /\ UNCHANGED <<rVars, gVars, dVars, lVars, aVars, mVars>>

NextGC ==
  \/ \E p \in PauseTimes : GCCycle(p) /\ UNCHANGED <<bVars, sVars, cVars, rVars, gVars, dVars, lVars, aVars>>
  \/ GCPoll /\ UNCHANGED <<sVars, cVars, rVars, gVars, dVars, lVars, aVars>>

\* main of the agent binary: AddSampler, AddExporter, Start, and on
\* shutdown Stop and then the exporter's Close, with the goroutines these
\* calls start.
NextAgent ==
  \/ \E s \in SamplerIds : cc.calls = 0 /\ AddSampler(s) /\ UNCHANGED <<bVars, rVars, gVars, dVars, lVars, aVars, mVars>>
  \/ cc.calls = 1 /\ AddExporter("e1") /\ UNCHANGED <<bVars, rVars, gVars, dVars, lVars, aVars, mVars>>
  \/ cc.calls = 2 /\ Start /\ UNCHANGED <<bVars, rVars, gVars, dVars, lVars, aVars, mVars>>
  \/ TickerFire /\ UNCHANGED <<bVars, rVars, gVars, dVars, lVars, aVars, mVars>>
  \/ LoopEnter /\ UNCHANGED <<bVars, rVars, gVars, dVars, lVars, aVars, mVars>>
  \/ LoopTickExport /\ UNCHANGED <<rVars, gVars, dVars, lVars, aVars, mVars>>
  \/ LoopQuit /\ UNCHANGED <<bVars, rVars, gVars, dVars, lVars, aVars, mVars>>
  \/ cc.calls = 3 /\ StopBegin /\ UNCHANGED <<bVars, rVars, gVars, dVars, lVars, aVars, mVars>>
  \/ StopLoopWaited /\ UNCHANGED <<bVars, rVars, gVars, dVars, lVars, aVars, mVars>>
  \/ \E s \in SamplerIds : StopperCall(s) /\ UNCHANGED <<bVars, rVars, gVars, dVars, lVars, aVars, mVars>>
  \/ \E s \in SamplerIds : StopperReturn(s) /\ UNCHANGED <<bVars, rVars, gVars, dVars, lVars, aVars, mVars>>
  \/ AgentStopFinish /\ UNCHANGED <<bVars, rVars, gVars, dVars, lVars, aVars>>
  \/ MainClose /\ UNCHANGED <<bVars, rVars, gVars, dVars, lVars, aVars>>
  \/ \E s \in SamplerIds : LoopTick(s) /\ UNCHANGED <<sc, cVars, rVars, gVars, dVars, lVars, aVars, mVars>>
  \/ \E s \in SamplerIds : LoopReturn(s) /\ UNCHANGED <<sc, bVars, cVars, rVars, gVars, dVars, lVars, aVars, mVars>>

NextRetention ==
  \E d \in Deltas : Write(d) /\ UNCHANGED <<bVars, sVars, cVars, gVars, dVars, lVars, aVars, mVars>>

NextGateway ==
  \/ \E p \in Producers : HandleChunkWrite(p) /\ UNCHANGED <<bVars, sVars, cVars, dVars, lVars, aVars, mVars>>
  \/ \E p \in Producers : FanoutBegin(p) /\ UNCHANGED <<bVars, sVars, cVars, dVars, lVars, aVars, mVars>>
  \/ \E p \in Producers, c \in ChanIds : FanoutSend(p, c) /\ UNCHANGED <<bVars, smp, sc, cVars, dVars, lVars, aVars, mVars>>
  \/ \E c \in ChanIds : Subscribe(c) /\ UNCHANGED <<bVars, sVars, cVars, dVars, lVars, aVars, mVars>>
  \/ \E c \in ChanIds : Unregister(c) /\ UNCHANGED <<bVars, smp, sc, cVars, dVars, lVars, aVars, mVars>>
  \/ \E c \in ChanIds : StreamFlamegraphs(c) /\ UNCHANGED <<bVars, sVars, cVars, dVars, lVars, aVars, mVars>>
  \/ \E c \in ChanIds : Replay(c) /\ UNCHANGED <<bVars, sVars, cVars, dVars, lVars, aVars, mVars>>
  \/ \E c \in ChanIds : ClientRead(c) /\ UNCHANGED <<bVars, sVars, cVars, dVars, lVars, aVars, mVars>>

\* The gateway with one ingress stream and subscribers that come and go
\* while its chunks are fanned out, the cleanup in its two steps.
NextGatewayClose ==
  \/ HandleChunkWrite("p1") /\ UNCHANGED <<bVars, sVars, cVars, dVars, lVars, aVars, mVars>>
  \/ FanoutBegin("p1") /\ UNCHANGED <<bVars, sVars, cVars, dVars, lVars, aVars, mVars>>
  \/ \E c \in ChanIds : FanoutSend("p1", c) /\ UNCHANGED <<bVars, smp, sc, cVars, dVars, lVars, aVars, mVars>>
  \/ \E c \in ChanIds : Subscribe(c) /\ UNCHANGED <<bVars, sVars, cVars, dVars, lVars, aVars, mVars>>
  \/ \E c \in ChanIds : StreamFlamegraphs(c) /\ UNCHANGED <<bVars, sVars, cVars, dVars, lVars, aVars, mVars>>
  \/ \E c \in ChanIds : Replay(c) /\ UNCHANGED <<bVars, sVars, cVars, dVars, lVars, aVars, mVars>>
  \/ \E c \in ChanIds : ClientRead(c) /\ UNCHANGED <<bVars, sVars, cVars, dVars, lVars, aVars, mVars>>
  \/ \E c \in ChanIds : UnregisterDelete(c) /\ UNCHANGED <<bVars, sVars, cVars, dVars, lVars, aVars, mVars>>
  \/ \E c \in ChanIds : UnregisterClose(c) /\ UNCHANGED <<bVars, sVars, cVars, dVars, lVars, aVars, mVars>>

\* The gateway with a single ingress stream: handleChunk calls never overlap.
NextGatewayOneStream ==
  \/ HandleChunkWrite("p1") /\ UNCHANGED <<bVars, sVars, cVars, dVars, lVars, aVars, mVars>>
  \/ FanoutBegin("p1") /\ UNCHANGED <<bVars, sVars, cVars, dVars, lVars, aVars, mVars>>
  \/ \E c \in ChanIds : FanoutSend("p1", c) /\ UNCHANGED <<bVars, smp, sc, cVars, dVars, lVars, aVars, mVars>>
  \/ \E c \in ChanIds : Subscribe(c) /\ UNCHANGED <<bVars, sVars, cVars, dVars, lVars, aVars, mVars>>
  \/ \E c \in ChanIds : Unregister(c) /\ UNCHANGED <<bVars, smp, sc, cVars, dVars, lVars, aVars, mVars>>
  \/ \E c \in ChanIds : StreamFlamegraphs(c) /\ UNCHANGED <<bVars, sVars, cVars, dVars, lVars, aVars, mVars>>
  \/ \E c \in ChanIds : Replay(c) /\ UNCHANGED <<bVars, sVars, cVars, dVars, lVars, aVars, mVars>>
  \/ \E c \in ChanIds : ClientRead(c) /\ UNCHANGED <<bVars, sVars, cVars, dVars, lVars, aVars, mVars>>

NextDiff ==
  DiffTrees /\ UNCHANGED <<bVars, sVars, cVars, rVars, gVars, lVars, aVars, mVars>>

\* Diff applied to the trees a builder reaches by Add calls.
NextDiffLive ==
  \/ \E s \in Samples \cup {HeapSample(-1)} : Add(s) /\ UNCHANGED <<sVars, cVars, rVars, gVars, dVars, lVars, aVars, mVars>>
  \/ DiffLive /\ UNCHANGED <<bVars, sVars, cVars, rVars, gVars, lVars, aVars, mVars>>

\* The gateway's gRPC side and its shutdown.  No new RPC is accepted once
\* GracefulStop has been called.
NextGatewayShutdown ==
  \/ \E p \in Producers : HandleChunkWrite(p) /\ UNCHANGED <<bVars, sVars, cVars, dVars, lVars, aVars, mVars>>
  \/ \E p \in Producers : FanoutBegin(p) /\ UNCHANGED <<bVars, sVars, cVars, dVars, lVars, aVars, mVars>>
  \/ \E p \in Producers, c \in ChanIds : FanoutSend(p, c) /\ UNCHANGED <<bVars, smp, sc, cVars, dVars, lVars, aVars, mVars>>
  \/ \E p \in Producers : StreamRecvEnds(p) /\ UNCHANGED <<bVars, sVars, cVars, dVars, mVars>>
  \/ \E c \in ChanIds : srv.stop = "idle" /\ StreamFlamegraphs(c) /\ UNCHANGED <<bVars, sVars, cVars, dVars, lVars, aVars, mVars>>
  \/ \E c \in ChanIds : Replay(c) /\ UNCHANGED <<bVars, sVars, cVars, dVars, lVars, aVars, mVars>>
  \/ \E c \in ChanIds : ClientRead(c) /\ UNCHANGED <<bVars, sVars, cVars, dVars, lVars, aVars, mVars>>
  \/ \E c \in ChanIds : Unregister(c) /\ UNCHANGED <<bVars, smp, sc, cVars, dVars, lVars, aVars, mVars>>
  \/ CtxCancel /\ UNCHANGED <<bVars, sVars, cVars, dVars, aVars, mVars>>
  \/ GracefulStopBegin /\ UNCHANGED <<bVars, sVars, cVars, dVars, aVars, mVars>>
  \/ GracefulStopReturn /\ UNCHANGED <<bVars, sVars, cVars, dVars, aVars, mVars>>
  \/ ServeReturn /\ UNCHANGED <<bVars, sVars, cVars, dVars, aVars, mVars>>

\* The calls to the two handlers and how Stream ends.
NextAuth ==
  \/ \E p \in Producers, md \in Metadata : StreamCall(p, md) /\ UNCHANGED <<bVars, sVars, cVars, dVars, mVars>>
  \/ \E p \in Producers, err \in RecvErrors : StreamRecvError(p, err) /\ UNCHANGED <<bVars, sVars, cVars, dVars, mVars>>
  \/ \E c \in ChanIds, md \in Metadata : StreamFlamegraphsCall(c, md) /\ UNCHANGED <<bVars, sVars, cVars, dVars, lVars, mVars>>

\* The gateway with the agents' authentication: agents call Stream and
\* send chunks, one WebSocket subscriber attaches and reads.
NextGatewayAuth ==
  \/ \E p \in Producers, md \in Metadata : StreamCall(p, md) /\ UNCHANGED <<bVars, sVars, cVars, dVars, mVars>>
  \/ \E p \in Producers : HandleChunkWrite(p) /\ UNCHANGED <<bVars, sVars, cVars, dVars, lVars, aVars, mVars>>
  \/ \E p \in Producers : FanoutBegin(p) /\ UNCHANGED <<bVars, sVars, cVars, dVars, lVars, aVars, mVars>>
  \/ \E p \in Producers : FanoutSend(p, "c1") /\ UNCHANGED <<bVars, smp, sc, cVars, dVars, lVars, aVars, mVars>>
  \/ Subscribe("c1") /\ UNCHANGED <<bVars, sVars, cVars, dVars, lVars, aVars, mVars>>
  \/ ClientRead("c1") /\ UNCHANGED <<bVars, sVars, cVars, dVars, lVars, aVars, mVars>>

NextRule ==
  \E gap \in EvalGaps, val \in BOOLEAN :
    Evaluate(gap, val) /\ UNCHANGED <<bVars, sVars, cVars, rVars, gVars, dVars, lVars, aVars>>

NextExpr ==
  EvalPredicate /\ UNCHANGED <<bVars, sVars, cVars, rVars, gVars, dVars, lVars, aVars>>

NextExporter ==
  \/ ExportCall /\ UNCHANGED <<bVars, sVars, cVars, rVars, gVars, dVars, lVars, aVars>>
  \/ ExportEnsure /\ UNCHANGED <<bVars, sVars, cVars, rVars, gVars, dVars, lVars, aVars>>
  \/ ExportSendOk /\ UNCHANGED <<bVars, sVars, cVars, rVars, gVars, dVars, lVars, aVars>>
  \/ ExportSendLost /\ UNCHANGED <<bVars, sVars, cVars, rVars, gVars, dVars, lVars, aVars>>
  \/ ExportSendFails /\ UNCHANGED <<bVars, sVars, cVars, rVars, gVars, dVars, lVars, aVars>>
  \/ ReconnectNextBackOff /\ UNCHANGED <<bVars, sVars, cVars, rVars, gVars, dVars, lVars, aVars>>
  \/ ReconnectTry /\ UNCHANGED <<bVars, sVars, cVars, rVars, gVars, dVars, lVars, aVars>>
  \/ ReconnectClosing /\ UNCHANGED <<bVars, sVars, cVars, rVars, gVars, dVars, lVars, aVars>>
  \/ ReconnectCtxDone /\ UNCHANGED <<bVars, sVars, cVars, rVars, gVars, dVars, lVars, aVars>>
  \/ FlushTimeout /\ UNCHANGED <<bVars, sVars, cVars, rVars, gVars, dVars, lVars, aVars>>
  \/ LinkFlips /\ UNCHANGED <<bVars, sVars, cVars, rVars, gVars, dVars, lVars, aVars>>
  \/ ExporterClose /\ UNCHANGED <<bVars, sVars, cVars, rVars, gVars, dVars, lVars, aVars>>
  \/ ExportCtxCancel /\ UNCHANGED <<bVars, sVars, cVars, rVars, gVars, dVars, lVars, aVars>>

SpecBuilderSeq == Init /\ [][NextBuilderSeq]_vars
SpecBuilder == Init /\ [][NextBuilder]_vars
SpecDiff == Init /\ [][NextDiff]_vars
SpecDiffLive == Init /\ [][NextDiffLive]_vars
SpecBuilderAdds == Init /\ [][NextBuilderAdds]_vars
SpecSampler == Init /\ [][NextSampler]_vars
SpecCollector == InitCollector /\ [][NextCollector]_vars
SpecGC == InitGC /\ [][NextGC]_vars
SpecAgent == InitAgent /\ [][NextAgent]_vars
SpecGatewayClose == Init /\ [][NextGatewayClose]_vars
SpecCollectorExport == InitCollector /\ [][NextCollectorExport]_vars
SpecRetention == Init /\ [][NextRetention]_vars
SpecGateway == Init /\ [][NextGateway]_vars
SpecGatewayOneStream == Init /\ [][NextGatewayOneStream]_vars
SpecRule == Init /\ [][NextRule]_vars
SpecExpr == Init /\ [][NextExpr]_vars
SpecExporter == Init /\ [][NextExporter]_vars
SpecAuth == InitAuth /\ [][NextAuth]_vars
SpecGatewayAuth == InitAuth /\ [][NextGatewayAuth]_vars
\* Every goroutine that can take a step eventually takes one.
SpecGatewayShutdown ==
  Init /\ [][NextGatewayShutdown]_vars /\ WF_vars(NextGatewayShutdown)

====
